---- MODULE Spec2Model ----
(***************************************************************************)
(* Mini-Server: the concurrent service registry, the request router and    *)
(* the server life cycle, as state machines translated from the C++        *)
(* sources.  Strings the code inspects character by character (paths,      *)
(* service names, raw requests) are sequences of one-character strings.    *)
(***************************************************************************)
EXTENDS Integers, Sequences, FiniteSets, TLC

(***************************************************************************)
(* Bounds of the model.                                                    *)
(***************************************************************************)
MaxAdminOps == 3
MaxApiCalls == 3

(***************************************************************************)
(* Threads of the registry specification: connection threads, each of      *)
(* which serves one request and so invokes at most one service, and one    *)
(* thread that mutates the registry.                                       *)
(***************************************************************************)
Invokers == {"c1", "c2"}
Admins == {"w1"}
\* Connections the server specification accepts, each with its own thread.
Connections == {"k1"}
NoThread == "none"

(***************************************************************************)
(* Service names (std::string keys), handlers and ServiceInfo values.      *)
(***************************************************************************)
EmptyName == << >>
NameA == <<"a">>
NameB == <<"b">>
Names == {EmptyName, NameA, NameB}
Handlers == {"h1", "h2"}
\* The request each connection thread carries (every connection has its own).
RequestOf(t) == <<"request of", t>>

ServiceInfo(desc, ver, h, enable) ==
    [description |-> desc, version |-> ver, handler |-> h, enabled |-> enable]

Infos ==
    { ServiceInfo("d1", "1.0.0", "h1", TRUE),
      ServiceInfo("d2", "2.0.0", "h2", FALSE) }

NullOpt == [has |-> FALSE]
Some(v) == [has |-> TRUE, value |-> v]

(***************************************************************************)
(* http::StatusCode and http::Response.  A body is kept as the structure   *)
(* the code prints: the JSON fields of an error body, or the value the     *)
(* handler produced.                                                       *)
(***************************************************************************)
OK == 200
BadRequest == 400
NotFound == 404
MethodNotAllowed == 405
InternalServerError == 500

NoHeaders == [n \in {} |-> ""]

SetHeader(headers, name, value) ==
    [n \in DOMAIN headers \cup {name} |-> IF n = name THEN value ELSE headers[n]]

Response(status, headers, body) ==
    [status |-> status, headers |-> headers, body |-> body]

JsonBody(fields) == [kind |-> "json", fields |-> fields]
EmptyBody == [kind |-> "empty"]
TextBody(text) == [kind |-> "text", text |-> text]

\* content.size() as a header value
SizeOf(content) == <<"size of", content>>

\* ServiceRegistry::CreateErrorResponse
RegistryErrorResponse(status, message) ==
    Response(status,
             SetHeader(NoHeaders, "Content-Type", "application/json"),
             JsonBody([error |-> message]))

\* What a handler that returns normally returns for a request: a value that
\* identifies the handler and the request it was applied to.  A handler
\* fills the Response as it likes: "h2" sets a Content-Length header itself,
\* to the length of another text than its body.
HandlerApply(h, request) ==
    LET body == [kind |-> "handler", handler |-> h, request |-> request]
        headers == SetHeader(NoHeaders, "Content-Type", "application/json") IN
    IF h = "h2"
    THEN Response(OK, SetHeader(headers, "Content-Length", SizeOf(EmptyBody)),
                  body)
    ELSE Response(OK, headers, body)

\* How a handler call can end.
Outcomes == {"returns", "std_exception", "other_exception"}

(***************************************************************************)
(* std::string: a sequence of characters, each a one-character string; a   *)
(* byte that is not printable ASCII, and the backquote, is written <HH>.   *)
(* ByteChars[n + 1] is the character with code n.                          *)
(***************************************************************************)
ByteChars ==
    << "<00>", "<01>", "<02>", "<03>", "<04>", "<05>", "<06>", "<07>",
       "<08>", "\t", "\n", "<0B>", "\f", "\r", "<0E>", "<0F>",
       "<10>", "<11>", "<12>", "<13>", "<14>", "<15>", "<16>", "<17>",
       "<18>", "<19>", "<1A>", "<1B>", "<1C>", "<1D>", "<1E>", "<1F>",
       " ", "!", "\"", "#", "$", "%", "&", "'",
       "(", ")", "*", "+", ",", "-", ".", "/",
       "0", "1", "2", "3", "4", "5", "6", "7",
       "8", "9", ":", ";", "<", "=", ">", "?",
       "@", "A", "B", "C", "D", "E", "F", "G",
       "H", "I", "J", "K", "L", "M", "N", "O",
       "P", "Q", "R", "S", "T", "U", "V", "W",
       "X", "Y", "Z", "[", "\\", "]", "^", "_",
       "<60>", "a", "b", "c", "d", "e", "f", "g",
       "h", "i", "j", "k", "l", "m", "n", "o",
       "p", "q", "r", "s", "t", "u", "v", "w",
       "x", "y", "z", "{", "|", "}", "~", "<7F>",
       "<80>", "<81>", "<82>", "<83>", "<84>", "<85>", "<86>", "<87>",
       "<88>", "<89>", "<8A>", "<8B>", "<8C>", "<8D>", "<8E>", "<8F>",
       "<90>", "<91>", "<92>", "<93>", "<94>", "<95>", "<96>", "<97>",
       "<98>", "<99>", "<9A>", "<9B>", "<9C>", "<9D>", "<9E>", "<9F>",
       "<A0>", "<A1>", "<A2>", "<A3>", "<A4>", "<A5>", "<A6>", "<A7>",
       "<A8>", "<A9>", "<AA>", "<AB>", "<AC>", "<AD>", "<AE>", "<AF>",
       "<B0>", "<B1>", "<B2>", "<B3>", "<B4>", "<B5>", "<B6>", "<B7>",
       "<B8>", "<B9>", "<BA>", "<BB>", "<BC>", "<BD>", "<BE>", "<BF>",
       "<C0>", "<C1>", "<C2>", "<C3>", "<C4>", "<C5>", "<C6>", "<C7>",
       "<C8>", "<C9>", "<CA>", "<CB>", "<CC>", "<CD>", "<CE>", "<CF>",
       "<D0>", "<D1>", "<D2>", "<D3>", "<D4>", "<D5>", "<D6>", "<D7>",
       "<D8>", "<D9>", "<DA>", "<DB>", "<DC>", "<DD>", "<DE>", "<DF>",
       "<E0>", "<E1>", "<E2>", "<E3>", "<E4>", "<E5>", "<E6>", "<E7>",
       "<E8>", "<E9>", "<EA>", "<EB>", "<EC>", "<ED>", "<EE>", "<EF>",
       "<F0>", "<F1>", "<F2>", "<F3>", "<F4>", "<F5>", "<F6>", "<F7>",
       "<F8>", "<F9>", "<FA>", "<FB>", "<FC>", "<FD>", "<FE>", "<FF>" >>

Chr(n) == ByteChars[n + 1]

UpperCase == <<"A", "B", "C", "D", "E", "F", "G", "H", "I", "J", "K", "L", "M",
               "N", "O", "P", "Q", "R", "S", "T", "U", "V", "W", "X", "Y", "Z">>
LowerCase == <<"a", "b", "c", "d", "e", "f", "g", "h", "i", "j", "k", "l", "m",
               "n", "o", "p", "q", "r", "s", "t", "u", "v", "w", "x", "y", "z">>

\* std::toupper / std::tolower on one character
ToUpperChar(c) ==
    IF \E i \in 1..26 : LowerCase[i] = c
    THEN UpperCase[CHOOSE i \in 1..26 : LowerCase[i] = c] ELSE c
ToLowerChar(c) ==
    IF \E i \in 1..26 : UpperCase[i] = c
    THEN LowerCase[CHOOSE i \in 1..26 : UpperCase[i] = c] ELSE c

ToUpper(str) == [i \in 1..Len(str) |-> ToUpperChar(str[i])]
ToLower(str) == [i \in 1..Len(str) |-> ToLowerChar(str[i])]

\* std::isspace in the "C" locale
WhiteSpace == {" ", "\t", "\n", "\r", "\f", "<0B>"}

\* str.find(c, from): the first index >= from holding c, or 0 (npos);
\* indices count from 1.
FindChar(str, c, from) ==
    IF \E i \in from..Len(str) : str[i] = c
    THEN CHOOSE i \in from..Len(str) :
            str[i] = c /\ \A j \in from..(i - 1) : str[j] # c
    ELSE 0

\* str.find(pat, from) for a string pat
FindStr(str, pat, from) ==
    LET At(i) == \A k \in 1..Len(pat) : str[i + k - 1] = pat[k]
        Last == Len(str) - Len(pat) + 1 IN
    IF \E i \in from..Last : At(i)
    THEN CHOOSE i \in from..Last : At(i) /\ \A j \in from..(i - 1) : ~At(j)
    ELSE 0

\* str.substr(pos) and str.substr(pos, n) with pos counted from 0, for
\* pos <= size (a larger pos throws std::out_of_range)
SubstrFrom(str, pos) == SubSeq(str, pos + 1, Len(str))
Substr(str, pos, n) ==
    SubSeq(str, pos + 1, IF pos + n > Len(str) THEN Len(str) ELSE pos + n)

S_GET == <<"G", "E", "T">>
S_POST == <<"P", "O", "S", "T">>
S_PUT == <<"P", "U", "T">>
S_DELETE == <<"D", "E", "L", "E", "T", "E">>
S_OPTIONS == <<"O", "P", "T", "I", "O", "N", "S">>
S_HEAD == <<"H", "E", "A", "D">>
S_PATCH == <<"P", "A", "T", "C", "H">>
S_HTTP11 == <<"H", "T", "T", "P", "/", "1", ".", "1">>
S_CRLF == <<"\r", "\n">>
S_ServicePrefix == <<"/", "s", "e", "r", "v", "i", "c", "e", "/">>
S_Services == <<"/", "s", "e", "r", "v", "i", "c", "e", "s">>
S_Ping == <<"/", "p", "i", "n", "g">>
S_Root == <<"/">>

(***************************************************************************)
(* HttpParser                                                              *)
(***************************************************************************)
HexDigits == <<"0", "1", "2", "3", "4", "5", "6", "7", "8", "9",
               "a", "b", "c", "d", "e", "f", "A", "B", "C", "D", "E", "F">>
IsHexDigit(c) == \E i \in 1..22 : HexDigits[i] = c
HexValue(c) ==
    LET i == CHOOSE k \in 1..22 : HexDigits[k] = c IN
    IF i <= 16 THEN i - 1 ELSE i - 7

\* std::istringstream(two characters) >> std::hex >> int: leading white
\* space is skipped, a sign and the digits that follow are read; "0x" with
\* no digit after it fails.
HexParse(c1, c2) ==
    IF c1 \in WhiteSpace
    THEN IF IsHexDigit(c2) THEN [ok |-> TRUE, value |-> HexValue(c2)]
         ELSE [ok |-> FALSE, value |-> 0]
    ELSE IF c1 \in {"+", "-"}
    THEN IF IsHexDigit(c2)
         THEN [ok |-> TRUE,
               value |-> IF c1 = "-" THEN (256 - HexValue(c2)) % 256
                         ELSE HexValue(c2)]
         ELSE [ok |-> FALSE, value |-> 0]
    ELSE IF IsHexDigit(c1)
    THEN IF IsHexDigit(c2)
         THEN [ok |-> TRUE, value |-> 16 * HexValue(c1) + HexValue(c2)]
         ELSE IF c1 = "0" /\ c2 \in {"x", "X"} THEN [ok |-> FALSE, value |-> 0]
         ELSE [ok |-> TRUE, value |-> HexValue(c1)]
    ELSE [ok |-> FALSE, value |-> 0]

RECURSIVE UrlDecodeFrom(_, _)
UrlDecodeFrom(str, i) ==
    IF i > Len(str) THEN << >>
    ELSE IF str[i] = "%" /\ i + 2 <= Len(str)
    THEN LET hex == HexParse(str[i + 1], str[i + 2]) IN
         IF hex.ok THEN <<Chr(hex.value)>> \o UrlDecodeFrom(str, i + 3)
         ELSE <<str[i]>> \o UrlDecodeFrom(str, i + 1)
    ELSE IF str[i] = "+" THEN <<" ">> \o UrlDecodeFrom(str, i + 1)
    ELSE <<str[i]>> \o UrlDecodeFrom(str, i + 1)

UrlDecode(str) == UrlDecodeFrom(str, 1)

\* HttpParser::Trim
Trim(str) ==
    LET keep == {i \in 1..Len(str) : str[i] \notin {" ", "\t", "\r", "\n"}} IN
    IF keep = {} THEN << >>
    ELSE LET first == CHOOSE i \in keep : \A j \in keep : i <= j
             last == CHOOSE i \in keep : \A j \in keep : j <= i IN
         SubSeq(str, first, last)

\* HttpParser::ParseMethod: the Method, or "UNKNOWN" for std::nullopt
ParseMethod(method_str) ==
    LET upper_method == ToUpper(method_str) IN
    CASE upper_method = S_GET -> "GET"
      [] upper_method = S_POST -> "POST"
      [] upper_method = S_PUT -> "PUT"
      [] upper_method = S_DELETE -> "DELETE"
      [] upper_method = S_OPTIONS -> "OPTIONS"
      [] upper_method = S_HEAD -> "HEAD"
      [] upper_method = S_PATCH -> "PATCH"
      [] OTHER -> "UNKNOWN"

\* HttpParser::ParseQueryParameters
ParseQueryParameters(url) ==
    LET question_pos == FindChar(url, "?", 1) IN
    IF question_pos = 0
    THEN [path |-> UrlDecode(url), query_string |-> << >>]
    ELSE [path |-> UrlDecode(SubSeq(url, 1, question_pos - 1)),
          query_string |-> SubSeq(url, question_pos + 1, Len(url))]

\* stream >> token: white space is skipped, then characters are read up to
\* the next white space; tok is empty when the stream ended first (the
\* extraction failed).  next is the index after the token.
ReadToken(str, from) ==
    LET nonws == {i \in from..Len(str) : str[i] \notin WhiteSpace} IN
    IF nonws = {} THEN [tok |-> << >>, next |-> Len(str) + 1]
    ELSE LET start == CHOOSE i \in nonws : \A j \in nonws : i <= j
             ws == {i \in start..Len(str) : str[i] \in WhiteSpace}
             stop == IF ws = {} THEN Len(str) + 1
                     ELSE CHOOSE i \in ws : \A j \in ws : i <= j IN
         [tok |-> SubSeq(str, start, stop - 1), next |-> stop]

NoRequest == [ok |-> FALSE]

\* HttpParser::ParseRequestLine: the method, path and query string, or
\* failure
ParseRequestLine(request_line) ==
    LET t1 == ReadToken(request_line, 1)
        t2 == ReadToken(request_line, t1.next)
        t3 == ReadToken(request_line, t2.next) IN
    IF t1.tok = << >> \/ t2.tok = << >> \/ t3.tok = << >> THEN NoRequest
    ELSE IF ParseMethod(t1.tok) = "UNKNOWN" THEN NoRequest
    ELSE LET q == ParseQueryParameters(t2.tok) IN
         [ok |-> TRUE, method |-> ParseMethod(t1.tok), path |-> q.path,
          query_string |-> q.query_string]

\* The lines successive std::getline calls return: the text is cut at each
\* "\n"; nothing is returned for the empty rest after a final "\n".
RECURSIVE GetLines(_)
GetLines(str) ==
    IF str = << >> THEN << >>
    ELSE LET nl == FindChar(str, "\n", 1) IN
         IF nl = 0 THEN <<str>>
         ELSE <<SubSeq(str, 1, nl - 1)>> \o GetLines(SubSeq(str, nl + 1, Len(str)))

\* if (!line.empty() && line.back() == '\r') line.pop_back()
StripCR(line) ==
    IF line # << >> /\ line[Len(line)] = "\r"
    THEN SubSeq(line, 1, Len(line) - 1) ELSE line

\* Mutant: the first occurrence of a name is kept.
ParseHeaderLineFirstWins(headers, header_line) ==
    LET colon_pos == FindChar(header_line, ":", 1) IN
    IF colon_pos = 0 THEN headers
    ELSE LET name == ToLower(Trim(SubSeq(header_line, 1, colon_pos - 1)))
             value == Trim(SubSeq(header_line, colon_pos + 1, Len(header_line))) IN
         [n \in DOMAIN headers \cup {name} |->
             IF n \in DOMAIN headers THEN headers[n] ELSE value]

\* HttpParser::ParseHeaderLine applied to the header map
ParseHeaderLine(headers, header_line) ==
    LET colon_pos == FindChar(header_line, ":", 1) IN
    IF colon_pos = 0 THEN headers
    ELSE LET name == ToLower(Trim(SubSeq(header_line, 1, colon_pos - 1)))
             value == Trim(SubSeq(header_line, colon_pos + 1, Len(header_line))) IN
         [n \in DOMAIN headers \cup {name} |->
             IF n = name THEN value ELSE headers[n]]

NoRequestHeaders == [n \in {} |-> << >>]

\* The header loop of ParseRequest over lines[i..]: the header map and the
\* index of the first line of the body.
RECURSIVE ParseHeaders(_, _, _)
ParseHeaders(lines, i, headers) ==
    IF i > Len(lines) THEN [headers |-> headers, body_from |-> i]
    ELSE LET line == StripCR(lines[i]) IN
         IF line = << >> THEN [headers |-> headers, body_from |-> i + 1]
         ELSE ParseHeaders(lines, i + 1, ParseHeaderLine(headers, line))

\* The body loop of ParseRequest over lines[i..]
RECURSIVE ParseBody(_, _, _)
ParseBody(lines, i, body) ==
    IF i > Len(lines) THEN body
    ELSE ParseBody(lines, i + 1,
                   (IF body # << >> THEN body \o <<"\n">> ELSE body) \o lines[i])

\* HttpParser::ParseRequest: the Request, or NoRequest for std::nullopt
ParseRequest(raw_data) ==
    IF raw_data = << >> THEN NoRequest
    ELSE LET lines == GetLines(raw_data)
             first == ParseRequestLine(StripCR(lines[1])) IN
         IF ~first.ok THEN NoRequest
         ELSE LET h == ParseHeaders(lines, 2, NoRequestHeaders) IN
              [ok |-> TRUE, method |-> first.method, path |-> first.path,
               query_string |-> first.query_string, headers |-> h.headers,
               body |-> ParseBody(lines, h.body_from, << >>)]

(***************************************************************************)
(* The registry's map operations (the code between lock and unlock).       *)
(***************************************************************************)
Put(m, name, info) ==
    [k \in DOMAIN m \cup {name} |-> IF k = name THEN info ELSE m[k]]

Erase(m, name) == [k \in DOMAIN m \ {name} |-> m[k]]

\* Mutant: no check for an existing key (operator[] overwrites).
RegisterServiceOverwrites(m, name, info) ==
    IF name = EmptyName THEN [ret |-> FALSE, map |-> m]
    ELSE [ret |-> TRUE, map |-> Put(m, name, info)]

RegisterService(m, name, info) ==
    IF name = EmptyName THEN [ret |-> FALSE, map |-> m]
    ELSE IF name \in DOMAIN m THEN [ret |-> FALSE, map |-> m]
    ELSE [ret |-> TRUE, map |-> Put(m, name, info)]

\* Mutant: clear() instead of erase(it).
UnregisterServiceClears(m, name) ==
    IF name = EmptyName THEN [ret |-> FALSE, map |-> m]
    ELSE IF name \in DOMAIN m THEN [ret |-> TRUE, map |-> [k \in {} |-> m[k]]]
    ELSE [ret |-> FALSE, map |-> m]

UnregisterService(m, name) ==
    IF name = EmptyName THEN [ret |-> FALSE, map |-> m]
    ELSE IF name \in DOMAIN m THEN [ret |-> TRUE, map |-> Erase(m, name)]
    ELSE [ret |-> FALSE, map |-> m]

\* Mutant: the flag is flipped instead of set.
EnableServiceToggles(m, name) ==
    IF name = EmptyName THEN [ret |-> FALSE, map |-> m]
    ELSE IF name \in DOMAIN m
         THEN [ret |-> TRUE, map |-> [m EXCEPT ![name].enabled = ~@]]
         ELSE [ret |-> FALSE, map |-> m]

EnableService(m, name) ==
    IF name = EmptyName THEN [ret |-> FALSE, map |-> m]
    ELSE IF name \in DOMAIN m
         THEN [ret |-> TRUE, map |-> [m EXCEPT ![name].enabled = TRUE]]
         ELSE [ret |-> FALSE, map |-> m]

DisableService(m, name) ==
    IF name = EmptyName THEN [ret |-> FALSE, map |-> m]
    ELSE IF name \in DOMAIN m
         THEN [ret |-> TRUE, map |-> [m EXCEPT ![name].enabled = FALSE]]
         ELSE [ret |-> FALSE, map |-> m]

GetService(m, name) ==
    IF name = EmptyName THEN NullOpt
    ELSE IF name \in DOMAIN m THEN Some(m[name]) ELSE NullOpt

HasService(m, name) ==
    IF name = EmptyName THEN FALSE ELSE name \in DOMAIN m

GetServiceCount(m) == Cardinality(DOMAIN m)

AdminOps == {"Register", "Unregister", "Enable", "Disable"}

ApplyAdminOp(m, op) ==
    CASE op.op = "Register" -> RegisterService(m, op.name, op.info)
      [] op.op = "Unregister" -> UnregisterService(m, op.name)
      [] op.op = "Enable" -> EnableService(m, op.name)
      [] op.op = "Disable" -> DisableService(m, op.name)

EmptyMap == [k \in {} |-> NullOpt]

VARIABLES
    m_services,     \* ServiceRegistry::m_services
    readers,        \* threads holding m_servicesMutex shared
    writer,         \* thread holding m_servicesMutex exclusively, or NoThread
    pc,             \* where each invoking thread is in HandleServiceRequest
    inv,            \* each invoking thread's arguments, locals and result
    apc,            \* where the mutating thread is in its registry call
    aop,            \* the mutating thread's current call and its return value
    callCount,      \* how often each handler has been entered
    nAdminOps,      \* registry mutations begun
    variant,        \* which Server::HandleRequest is built: "router", "inline"
    m_static_file_handler,  \* RequestRouter: a static file handler exists
    m_running,      \* Server::m_running
    m_server_thread,    \* Server::m_server_thread: not joinable, or where
                        \* the thread it represents is in RunServer
    m_is_running,   \* SocketServer::m_is_running
    m_server_socket,    \* SocketServer::m_server_socket
    apiPc,          \* where the thread that owns the Server is in Stop()
    apiCall,        \* that thread's last call on the Server and its result
    conns,          \* the accepted connections and their threads
    alive,          \* FALSE once std::terminate has been called
    regAtStart,     \* m_services when m_running was last stored true
    nApiCalls,      \* calls on the Server begun
    peer,           \* what the peer of one connection sends, and how far
    data,           \* ReceiveData::data, without the filler bytes at its end
    filler_size,    \* the number of filler bytes at the end of data
    total_received, \* ReceiveData::total_received
    headers_complete,   \* ReceiveData::headers_complete
    content_length, \* ReceiveData::content_length
    headers_end_pos,    \* ReceiveData::headers_end_pos
    hcPc,           \* where that connection's thread is in HandleClient
    cycle           \* what has happened on that connection

regVars == <<readers, writer, pc, inv, apc, aop, callCount, nAdminOps>>

srvVars == <<variant, m_static_file_handler, m_running, m_server_thread,
             m_is_running, m_server_socket, apiPc, apiCall, conns, alive,
             regAtStart, nApiCalls>>

cliVars == <<peer, data, filler_size, total_received, headers_complete,
             content_length, headers_end_pos, hcPc, cycle>>

vars == <<m_services, readers, writer, pc, inv, apc, aop, callCount,
          nAdminOps, variant, m_static_file_handler, m_running,
          m_server_thread, m_is_running, m_server_socket, apiPc, apiCall,
          conns, alive, regAtStart, nApiCalls, peer, data, filler_size,
          total_received, headers_complete, content_length, headers_end_pos,
          hcPc, cycle>>

NoResult == [kind |-> "none"]
Returned(r) == [kind |-> "response", response |-> r]
Escaped == [kind |-> "exception"]

InvInit ==
    [name |-> EmptyName, request |-> << >>, service_opt |-> NullOpt,
     result |-> NoResult, calls |-> 0, seen |-> "none", raised |-> "none",
     changed |-> FALSE]

NoOp == [op |-> "none", name |-> EmptyName, info |-> NullOpt, ret |-> FALSE]

NoApiCall == [op |-> "none", name |-> EmptyName, ret |-> FALSE, running |-> FALSE]

ConnInit ==
    [pc |-> "none", raw |-> << >>, fault |-> FALSE, result |-> NoResult]

\* The registry's threads before their first call.
RegistryThreadsInit ==
    /\ readers = {}
    /\ writer = NoThread
    /\ pc = [t \in Invokers |-> "idle"]
    /\ inv = [t \in Invokers |-> InvInit]
    /\ apc = [w \in Admins |-> "idle"]
    /\ aop = [w \in Admins |-> NoOp]
    /\ callCount = [h \in Handlers |-> 0]
    /\ nAdminOps = 0

\* The Server and SocketServer members their constructors initialise;
\* m_running is set separately.
ServerMembersInit ==
    /\ m_server_thread = "not_joinable"
    /\ m_is_running = FALSE
    /\ m_server_socket = "invalid"
    /\ apiPc = "idle"
    /\ apiCall = NoApiCall
    /\ conns = [c \in Connections |-> ConnInit]
    /\ alive = TRUE
    /\ regAtStart = EmptyMap
    /\ nApiCalls = 0

\* No message: nothing is sent on the connection.
NoMessage == [pieces |-> << >>, filler |-> FALSE]

NoCycle ==
    [why |-> "none", reads |-> 0, handler_calls |-> 0, request |-> NoRequest,
     total_sent |-> 0, sent |-> FALSE, closes |-> 0]

\* The locals of ReceiveData as it begins, on a connection whose peer will
\* send message.
ReceiveDataInit(message) ==
    /\ peer = [message |-> message, delivered |-> 0]
    /\ data = << >>
    /\ filler_size = 0
    /\ total_received = 0
    /\ headers_complete = FALSE
    /\ content_length = 0
    /\ headers_end_pos = 0
    /\ cycle = NoCycle

\* No connection is looked at read by read.
ClientIdle == ReceiveDataInit(NoMessage) /\ hcPc = "none"

\* The registry on its own: a ServiceRegistry no Server has been started on.
Init ==
    /\ m_services = EmptyMap
    /\ RegistryThreadsInit
    /\ variant = "router"
    /\ m_static_file_handler = FALSE
    /\ m_running = FALSE
    /\ ServerMembersInit
    /\ ClientIdle

(***************************************************************************)
(* std::shared_mutex                                                       *)
(***************************************************************************)
\* Mutant: one exclusive lock taken for the lookup and held until the handler
\* has returned.
CanLockSharedHeldThroughHandler(t) ==
    /\ writer = NoThread
    /\ \A u \in Invokers \ {t} : pc[u] \notin {"get_read", "call", "running"}

CanLockShared(t) == writer = NoThread
CanLockExclusive(w) == writer = NoThread /\ readers = {}

(***************************************************************************)
(* ServiceRegistry::HandleServiceRequest(request, serviceName), one thread *)
(***************************************************************************)
\* What the lookup found (recorded for the properties).
Seen(opt) ==
    IF ~opt.has THEN "absent"
    ELSE IF opt.value.enabled THEN "enabled" ELSE "disabled"

\* Mutant: the enabled flag is not looked at.
CheckServiceIgnoresEnabled(opt, name) ==
    IF ~opt.has
    THEN [call |-> FALSE,
          result |-> Returned(RegistryErrorResponse(
                        NotFound, <<"Service not found: ", name>>))]
    ELSE [call |-> TRUE, result |-> NoResult]

\* The checks HandleServiceRequest makes on what GetService returned: an
\* error response, or the handler is to be called.
CheckService(opt, name) ==
    IF ~opt.has
    THEN [call |-> FALSE,
          result |-> Returned(RegistryErrorResponse(
                        NotFound, <<"Service not found: ", name>>))]
    ELSE IF ~opt.value.enabled
    THEN [call |-> FALSE,
          result |-> Returned(RegistryErrorResponse(
                        InternalServerError, <<"Service disabled: ", name>>))]
    ELSE [call |-> TRUE, result |-> NoResult]

\* The call begins; GetService returns nullopt for an empty name before it
\* takes the lock.
InvokeBegin(t, name, request) ==
    /\ pc[t] = "idle"
    /\ LET fresh == [InvInit EXCEPT !.name = name, !.request = request] IN
       IF name = EmptyName
       THEN /\ inv' = [inv EXCEPT ![t] =
                  [fresh EXCEPT !.seen = Seen(NullOpt),
                                !.result = CheckService(NullOpt, name).result]]
            /\ pc' = [pc EXCEPT ![t] = "done"]
       ELSE /\ inv' = [inv EXCEPT ![t] = fresh]
            /\ pc' = [pc EXCEPT ![t] = "get_lock"]
    /\ UNCHANGED <<m_services, readers, writer, apc, aop, callCount, nAdminOps>>
    /\ UNCHANGED <<srvVars, cliVars>>

\* GetService: std::shared_lock lock(m_servicesMutex)
GetServiceLock(t) ==
    /\ pc[t] = "get_lock"
    /\ CanLockShared(t)
    /\ readers' = readers \cup {t}
    /\ pc' = [pc EXCEPT ![t] = "get_read"]
    /\ UNCHANGED <<m_services, writer, inv, apc, aop, callCount, nAdminOps>>
    /\ UNCHANGED <<srvVars, cliVars>>

\* GetService: find, copy the entry, return (the shared_lock is released);
\* then the checks HandleServiceRequest makes on the copy.
GetServiceRead(t) ==
    /\ pc[t] = "get_read"
    /\ readers' = readers \ {t}
    /\ LET opt == GetService(m_services, inv[t].name)
           chk == CheckService(opt, inv[t].name) IN
       /\ inv' = [inv EXCEPT ![t].service_opt = opt, ![t].seen = Seen(opt),
                             ![t].result = chk.result]
       /\ pc' = [pc EXCEPT ![t] = IF chk.call THEN "call" ELSE "done"]
    /\ UNCHANGED <<m_services, writer, apc, aop, callCount, nAdminOps>>
    /\ UNCHANGED <<srvVars, cliVars>>

\* return service.handler(request): the handler is entered
HandlerStart(t) ==
    /\ pc[t] = "call"
    /\ LET h == inv[t].service_opt.value.handler IN
       callCount' = [callCount EXCEPT ![h] = @ + 1]
    /\ inv' = [inv EXCEPT ![t].calls = @ + 1]
    /\ pc' = [pc EXCEPT ![t] = "running"]
    /\ UNCHANGED <<m_services, readers, writer, apc, aop, nAdminOps>>
    /\ UNCHANGED <<srvVars, cliVars>>

\* Mutant: the handler's response is replaced by an error response.
HandlerResultDropsResponse(h, request, outcome) ==
    CASE outcome = "other_exception" -> Escaped
      [] OTHER -> Returned(RegistryErrorResponse(InternalServerError,
                                                 <<"Internal service error">>))

\* What HandleServiceRequest does with the way the handler call ended: the
\* handler's response is returned, a std::exception is caught and turned
\* into a 500, anything else thrown leaves HandleServiceRequest.
HandlerResult(h, request, outcome) ==
    CASE outcome = "returns" -> Returned(HandlerApply(h, request))
      [] outcome = "std_exception" ->
            Returned(RegistryErrorResponse(InternalServerError,
                                           <<"Internal service error">>))
      [] outcome = "other_exception" -> Escaped

\* The handler call ends (a handler may also never return: nothing forces
\* this step).
HandlerEnd(t, outcome) ==
    /\ pc[t] = "running"
    /\ inv' = [inv EXCEPT
          ![t].raised = IF outcome = "returns" THEN "none" ELSE outcome,
          ![t].result = HandlerResult(inv[t].service_opt.value.handler,
                                      inv[t].request, outcome)]
    /\ pc' = [pc EXCEPT ![t] = "done"]
    /\ UNCHANGED <<m_services, readers, writer, apc, aop, callCount, nAdminOps>>
    /\ UNCHANGED <<srvVars, cliVars>>

(***************************************************************************)
(* RegisterService / UnregisterService / EnableService / DisableService    *)
(* called by the mutating thread.                                          *)
(***************************************************************************)
\* The call begins; an empty name returns false before the lock is taken.
AdminCall(w, op, name, info) ==
    /\ apc[w] \in {"idle", "ret"}
    /\ nAdminOps < MaxAdminOps
    /\ nAdminOps' = nAdminOps + 1
    /\ aop' = [aop EXCEPT ![w] =
                  [op |-> op, name |-> name, ret |-> FALSE,
                   info |-> IF name = EmptyName THEN NullOpt ELSE info]]
    /\ apc' = [apc EXCEPT ![w] = IF name = EmptyName THEN "ret" ELSE "lock"]
    /\ UNCHANGED <<m_services, readers, writer, pc, inv, callCount>>
    /\ UNCHANGED <<srvVars, cliVars>>

\* std::lock_guard<std::shared_mutex> lock(m_servicesMutex)
AdminLock(w) ==
    /\ apc[w] = "lock"
    /\ CanLockExclusive(w)
    /\ writer' = w
    /\ apc' = [apc EXCEPT ![w] = "crit"]
    /\ UNCHANGED <<m_services, readers, pc, inv, aop, callCount, nAdminOps>>
    /\ UNCHANGED <<srvVars, cliVars>>

\* The body under the lock, the unlock and the return.
AdminCrit(w) ==
    /\ apc[w] = "crit"
    /\ LET call == [aop[w] EXCEPT !.info = IF @.has THEN @.value ELSE @]
           r == ApplyAdminOp(m_services, call) IN
       /\ m_services' = r.map
       /\ aop' = [aop EXCEPT ![w].ret = r.ret, ![w].info = NullOpt]
       /\ inv' = [t \in Invokers |->
                    [inv[t] EXCEPT !.changed =
                        @ \/ (pc[t] # "idle" /\ r.map # m_services)]]
    /\ writer' = NoThread
    /\ apc' = [apc EXCEPT ![w] = "ret"]
    /\ UNCHANGED <<readers, pc, callCount, nAdminOps>>
    /\ UNCHANGED <<srvVars, cliVars>>

Next ==
    \/ \E t \in Invokers, n \in Names : InvokeBegin(t, n, RequestOf(t))
    \/ \E t \in Invokers : GetServiceLock(t)
    \/ \E t \in Invokers : GetServiceRead(t)
    \/ \E t \in Invokers : HandlerStart(t)
    \/ \E t \in Invokers, o \in Outcomes : HandlerEnd(t, o)
    \/ \E w \in Admins, n \in Names, i \in Infos :
          AdminCall(w, "Register", n, Some(i))
    \/ \E w \in Admins, op \in AdminOps \ {"Register"}, n \in Names :
          AdminCall(w, op, n, NullOpt)
    \/ \E w \in Admins : AdminLock(w)
    \/ \E w \in Admins : AdminCrit(w)

Spec == Init /\ [][Next]_vars

(***************************************************************************)
(* Fairness: every thread that can take a step eventually takes it, except *)
(* that no handler is required to return but the one thread c2 calls.      *)
(***************************************************************************)
SpecFair ==
    /\ Spec
    /\ \A t \in Invokers :
          /\ WF_vars(GetServiceLock(t))
          /\ WF_vars(GetServiceRead(t))
          /\ WF_vars(HandlerStart(t))
    /\ WF_vars(\E o \in Outcomes : HandlerEnd("c2", o))
    /\ \A w \in Admins : WF_vars(AdminLock(w)) /\ WF_vars(AdminCrit(w))

(***************************************************************************)
(* Response helpers (http_types.cpp) and HttpParser::SerializeResponse.    *)
(* A body is a record: empty, a text, JSON fields, a handler's value or a  *)
(* file's content.  The size of a body is kept symbolic.                   *)
(***************************************************************************)
\* http::Response response; (status OK, no headers, empty body)
DefaultResponse == Response(OK, NoHeaders, EmptyBody)

\* Response::SetContent
SetContent(response, content, content_type) ==
    [response EXCEPT
        !.body = content,
        !.headers = SetHeader(SetHeader(@, "Content-Type", content_type),
                              "Content-Length", SizeOf(content))]

SetJson(response, json_content) ==
    SetContent(response, json_content, "application/json; charset=utf-8")

SetText(response, text_content) ==
    SetContent(response, text_content, "text/plain; charset=utf-8")

\* Response::AddCorsHeaders (used by the static file handler)
ResponseAddCorsHeaders(response) ==
    [response EXCEPT !.headers =
        SetHeader(SetHeader(SetHeader(SetHeader(@,
            "Access-Control-Allow-Origin", "*"),
            "Access-Control-Allow-Methods", "GET, POST, PUT, DELETE, OPTIONS"),
            "Access-Control-Allow-Headers", "Content-Type, Authorization"),
            "Access-Control-Max-Age", "3600")]

\* HttpParser::GetStatusText
GetStatusText(status) ==
    CASE status = OK -> "OK"
      [] status = BadRequest -> "Bad Request"
      [] status = NotFound -> "Not Found"
      [] status = MethodNotAllowed -> "Method Not Allowed"
      [] status = InternalServerError -> "Internal Server Error"
      [] OTHER -> "Unknown"

\* Mutant: Content-Length is always written from the body's size.
SerializeResponseOverwrites(response) ==
    [status |-> response.status,
     reason |-> GetStatusText(response.status),
     headers |-> SetHeader(response.headers, "Content-Length",
                           SizeOf(response.body)),
     body |-> response.body]

\* HttpParser::SerializeResponse: the status line, the headers, with a
\* Content-Length of the body's size added when the response has none, and
\* the body.
SerializeResponse(response) ==
    [status |-> response.status,
     reason |-> GetStatusText(response.status),
     headers |-> IF "Content-Length" \in DOMAIN response.headers
                 THEN response.headers
                 ELSE SetHeader(response.headers, "Content-Length",
                                SizeOf(response.body)),
     body |-> response.body]

(***************************************************************************)
(* Handlers as the Server sees them: the user's handlers, an empty         *)
(* std::function, and the handlers RegisterInternalServices installs.      *)
(***************************************************************************)
NullHandler == "null"
PingName == <<"p", "i", "n", "g">>
HotReloadStatusName ==
    <<"a", "p", "i", "/", "h", "o", "t", "r", "e", "l", "o", "a", "d", "/",
      "s", "t", "a", "t", "u", "s">>
ServerStatsName ==
    <<"a", "p", "i", "/", "s", "e", "r", "v", "e", "r", "/", "s", "t", "a",
      "t", "s">>
InternalHandlers == {"ping_handler", "hotreload_status_handler",
                     "server_stats_handler"}

\* The lambdas of RegisterInternalServices: they ignore the request.
InternalHandlerApply(m, h) ==
    CASE h = "ping_handler" ->
            SetJson(DefaultResponse,
                    JsonBody([status |-> "ok", message |-> "ping",
                              timestamp |-> "timestamp",
                              services |-> GetServiceCount(m)]))
      [] h = "hotreload_status_handler" ->
            SetJson(DefaultResponse,
                    JsonBody([isRunning |-> FALSE, loadedScriptsCount |-> 0,
                              lastUpdate |-> "timestamp"]))
      [] h = "server_stats_handler" ->
            SetJson(DefaultResponse,
                    JsonBody([uptime |-> "uptime", requestCount |-> 0,
                              version |-> "1.0.0",
                              timestamp |-> "timestamp"]))

\* ServiceRegistry::GetServicesInfo
GetServicesInfo(m) ==
    Response(OK,
             SetHeader(SetHeader(NoHeaders, "Content-Type", "application/json"),
                       "Cache-Control", "no-cache"),
             JsonBody([services |->
                          [n \in DOMAIN m |->
                              [description |-> m[n].description,
                               version |-> m[n].version,
                               enabled |-> m[n].enabled]],
                       total |-> GetServiceCount(m)]))

\* A std::exception thrown and not yet caught.
Thrown == [kind |-> "std_exception"]

\* ServiceRegistry::HandleServiceRequest as one step: the lookup, the checks
\* and the call, which ends as outcome says (an internal handler returns).
HandleServiceRequest(m, request, serviceName, outcome) ==
    LET service_opt == GetService(m, serviceName)
        chk == CheckService(service_opt, serviceName) IN
    IF ~chk.call THEN chk.result
    ELSE IF service_opt.value.handler \in InternalHandlers
    THEN Returned(InternalHandlerApply(m, service_opt.value.handler))
    ELSE HandlerResult(service_opt.value.handler, request, outcome)

(***************************************************************************)
(* StaticFileHandler                                                       *)
(***************************************************************************)
S_IndexHtml == <<"/", "i", "n", "d", "e", "x", ".", "h", "t", "m", "l">>
S_DotDot == <<".", ".">>

\* What the file system holds at the requested path, or that asking fails.
FileStates == {"file", "missing", "directory", "unreadable", "error"}

IsSafePath(path) ==
    /\ FindStr(path, S_DotDot, 1) = 0
    /\ path # << >> /\ path[1] = "/"
    /\ FindChar(path, "<00>", 1) = 0

StaticHandleRequest(request, file) ==
    LET path == IF request.path = S_Root \/ request.path = << >>
                THEN S_IndexHtml ELSE request.path IN
    IF ~IsSafePath(path)
    THEN SetText([DefaultResponse EXCEPT !.status = BadRequest],
                 TextBody("Invalid path"))
    ELSE CASE file = "error" ->
                SetText([DefaultResponse EXCEPT !.status = InternalServerError],
                        TextBody("Internal server error"))
           [] file = "missing" ->
                SetText([DefaultResponse EXCEPT !.status = NotFound],
                        TextBody("File not found"))
           [] file = "directory" ->
                SetText([DefaultResponse EXCEPT !.status = NotFound],
                        TextBody("Not a file"))
           [] file = "unreadable" ->
                SetText([DefaultResponse EXCEPT !.status = InternalServerError],
                        TextBody("Failed to read file"))
           [] file = "file" ->
                ResponseAddCorsHeaders(
                    Response(OK,
                             SetHeader(NoHeaders, "Content-Type", "mime type"),
                             [kind |-> "file", path |-> path]))

(***************************************************************************)
(* RequestRouter                                                           *)
(***************************************************************************)
\* RequestRouter::CreateErrorResponse
CreateErrorResponse(status, message) ==
    SetJson([DefaultResponse EXCEPT !.status = status],
            JsonBody([error |-> message, status |-> status,
                      timestamp |-> "timestamp"]))

\* RequestRouter::AddCorsHeaders
AddCorsHeaders(response) ==
    [response EXCEPT !.headers =
        SetHeader(SetHeader(SetHeader(@,
            "Access-Control-Allow-Origin", "*"),
            "Access-Control-Allow-Methods", "GET, POST, PUT, DELETE, OPTIONS"),
            "Access-Control-Allow-Headers", "Content-Type, Authorization")]

\* RequestRouter::HandleOptionsRequest
HandleOptionsRequest ==
    Response(OK,
             SetHeader(AddCorsHeaders(DefaultResponse).headers,
                       "Access-Control-Max-Age", "86400"),
             EmptyBody)

\* RequestRouter::HandleRootRequest
HandleRootRequest ==
    SetJson(DefaultResponse,
            JsonBody([message |-> "Welcome to Mini Server",
                      version |-> "1.0.0",
                      endpoints |-> [health |-> "GET /ping",
                                     services |-> "GET /services",
                                     invoke |-> "POST /service/<name>"],
                      timestamp |-> "timestamp"]))

\* RequestRouter::ExtractServiceName
ExtractServiceName(path) ==
    IF Len(path) <= Len(S_ServicePrefix) THEN << >>
    ELSE LET rest == SubstrFrom(path, Len(S_ServicePrefix))
             query_pos == FindChar(rest, "?", 1)
             no_query == IF query_pos # 0 THEN SubSeq(rest, 1, query_pos - 1)
                         ELSE rest
             fragment_pos == FindChar(no_query, "#", 1) IN
         IF fragment_pos # 0 THEN SubSeq(no_query, 1, fragment_pos - 1)
         ELSE no_query

\* What the router is given besides the request: how a handler call ends
\* and what the file system holds.  A request reaches a handler or the file
\* system, never both, so one of the two is left at its first value.
Envs ==
    {[outcome |-> o, file |-> "file"] : o \in Outcomes}
        \cup {[outcome |-> "returns", file |-> f] : f \in FileStates}

\* RequestRouter::HandleGetRequest; path.substr(1) throws std::out_of_range
\* for an empty path.
HandleGetRequest(static, m, request, env) ==
    LET path == request.path IN
    IF Len(path) < 1 THEN Thrown
    ELSE LET service_name == SubstrFrom(path, 1) IN
         IF service_name # << >> /\ HasService(m, service_name)
         THEN HandleServiceRequest(m, request, service_name, env.outcome)
         ELSE IF path = S_Services THEN Returned(GetServicesInfo(m))
         ELSE IF static THEN Returned(StaticHandleRequest(request, env.file))
         ELSE IF path = S_Root THEN Returned(HandleRootRequest)
         ELSE Returned(CreateErrorResponse(NotFound, "Resource not found"))

\* RequestRouter::HandlePostRequest
HandlePostRequest(m, request, env) ==
    LET path == request.path IN
    IF Len(path) > 9 /\ Substr(path, 0, 9) = S_ServicePrefix
    THEN LET service_name == ExtractServiceName(path) IN
         IF service_name = << >>
         THEN Returned(CreateErrorResponse(BadRequest,
                                           "Service name is required"))
         ELSE HandleServiceRequest(m, request, service_name, env.outcome)
    ELSE Returned(CreateErrorResponse(NotFound, "Endpoint not found"))

\* Mutant: OPTIONS is not answered before the other routes.
RouteRequestInternalWithoutOptions(static, m, request, env) ==
    IF request.method = "GET" THEN HandleGetRequest(static, m, request, env)
    ELSE IF request.method = "POST" THEN HandlePostRequest(m, request, env)
    ELSE Returned(CreateErrorResponse(MethodNotAllowed, "Method not allowed"))

\* RequestRouter::RouteRequestInternal
RouteRequestInternal(static, m, request, env) ==
    IF request.method = "OPTIONS" THEN Returned(HandleOptionsRequest)
    ELSE IF request.method = "GET" THEN HandleGetRequest(static, m, request, env)
    ELSE IF request.method = "POST" THEN HandlePostRequest(m, request, env)
    ELSE Returned(CreateErrorResponse(MethodNotAllowed, "Method not allowed"))

\* RequestRouter::RouteRequest: a std::exception becomes a 500, the CORS
\* headers are added; anything else thrown leaves RouteRequest.
RouteRequest(static, m, request, env) ==
    LET r == RouteRequestInternal(static, m, request, env) IN
    IF r = Escaped THEN Escaped
    ELSE IF r = Thrown
    THEN Returned(AddCorsHeaders(
            CreateErrorResponse(InternalServerError, "Internal Server Error")))
    ELSE Returned(AddCorsHeaders(r.response))

(***************************************************************************)
(* Requests that arrive on connections.                                    *)
(***************************************************************************)
S_Bogus == <<"B", "O", "G", "U", "S">>
S_SlashA == <<"/", "a">>
S_ServiceA == S_ServicePrefix \o NameA
S_ServiceB == S_ServicePrefix \o NameB
S_QueryOnly == <<"?", "x">>
S_ServiceFragment == S_ServicePrefix \o <<"#", "x">>
S_ServiceAFragment == S_ServiceA \o <<"#", "x">>
S_LowerGet == <<"g", "e", "t">>
S_XA == <<"x", "a">>

RawRequest(method, url) ==
    method \o <<" ">> \o url \o <<" ">> \o S_HTTP11 \o S_CRLF \o S_CRLF

\* A request line of four tokens, and one of two.
FourTokenRequest == S_GET \o <<" ">> \o S_Ping \o <<" ">> \o S_HTTP11
                        \o <<" ", "x">> \o S_CRLF \o S_CRLF
TwoTokenRequest == S_GET \o <<" ">> \o S_Ping \o S_CRLF \o S_CRLF

RawRequests ==
    { RawRequest(S_GET, S_Ping), RawRequest(S_GET, S_Services),
      RawRequest(S_GET, S_Root), RawRequest(S_GET, S_SlashA),
      RawRequest(S_GET, S_QueryOnly), RawRequest(S_GET, S_ServiceA),
      RawRequest(S_GET, S_XA),
      RawRequest(S_LowerGet, S_Ping),
      RawRequest(S_POST, S_ServiceA), RawRequest(S_POST, S_ServiceB),
      RawRequest(S_POST, S_ServicePrefix), RawRequest(S_POST, S_Ping),
      RawRequest(S_POST, S_ServiceFragment),
      RawRequest(S_POST, S_ServiceAFragment),
      RawRequest(S_OPTIONS, S_SlashA), RawRequest(S_OPTIONS, S_ServiceA),
      RawRequest(S_OPTIONS, S_QueryOnly),
      RawRequest(S_PUT, S_SlashA), RawRequest(S_DELETE, S_ServiceA),
      RawRequest(S_HEAD, S_Ping), RawRequest(S_PATCH, S_Services),
      RawRequest(S_Bogus, S_Root), FourTokenRequest, TwoTokenRequest,
      S_CRLF }

\* HttpParser::ParseRequest applied to each request that can arrive.
ParsedRequests == [raw \in RawRequests |-> ParseRequest(raw)]

(***************************************************************************)
(* Server::HandleRequest, in the build that routes through RequestRouter   *)
(* and in the build that routes inline.                                    *)
(***************************************************************************)
\* Mutant: the status of the answer to a parse failure is left at its default.
BadRequestResponseStatusUnset == SetText(DefaultResponse, TextBody("Bad Request"))

\* The 400 answer to a request that does not parse.
BadRequestResponse ==
    SetText([DefaultResponse EXCEPT !.status = BadRequest],
            TextBody("Bad Request"))

\* The answer of the catch block of HandleRequest.
FallbackResponse ==
    SetJson([DefaultResponse EXCEPT !.status = InternalServerError],
            JsonBody([error |-> "Internal Server Error"]))

\* The routing of the inline build (src/server/core/server.cpp).
InlineRoute(m, request, env) ==
    IF request.method = "OPTIONS" THEN Returned(HandleOptionsRequest)
    ELSE IF request.path = S_Ping /\ request.method = "GET"
    THEN Returned(SetJson(DefaultResponse,
                          JsonBody([status |-> "ok", message |-> "pong"])))
    ELSE IF request.path = S_Services /\ request.method = "GET"
    THEN Returned(GetServicesInfo(m))
    ELSE IF Substr(request.path, 0, 9) = S_ServicePrefix
            /\ request.method = "POST"
    THEN LET service_name == SubstrFrom(request.path, 9) IN
         IF service_name # << >>
         THEN HandleServiceRequest(m, request, service_name, env.outcome)
         ELSE Returned(SetJson([DefaultResponse EXCEPT !.status = BadRequest],
                               JsonBody([error |-> "Service name is required"])))
    ELSE Returned(SetJson([DefaultResponse EXCEPT !.status = NotFound],
                          JsonBody([error |-> "Endpoint not found"])))

\* Server::HandleRequest(request_data): the serialized response, or Escaped
\* when something that is not a std::exception was thrown.  fault says that
\* a std::exception (std::bad_alloc, say) was thrown inside the try block
\* and outside the router's own.  request_opt is ParseRequest(request_data).
HandleRequest(v, static, m, request_data, env, fault) ==
    IF fault THEN Returned(SerializeResponse(FallbackResponse))
    ELSE LET request_opt == ParsedRequests[request_data] IN
         IF ~request_opt.ok THEN Returned(SerializeResponse(BadRequestResponse))
         ELSE LET r == IF v = "router"
                       THEN RouteRequest(static, m, request_opt, env)
                       ELSE InlineRoute(m, request_opt, env) IN
              IF r = Escaped THEN Escaped
              ELSE IF v = "router" THEN Returned(SerializeResponse(r.response))
              ELSE Returned(SerializeResponse(AddCorsHeaders(r.response)))

(***************************************************************************)
(* The Server's life cycle: the thread that owns the Server object calls   *)
(* RegisterService, UnregisterService, Start and Stop, one call at a time. *)
(***************************************************************************)
ServicesName == <<"s", "e", "r", "v", "i", "c", "e", "s">>
ServerNames == {EmptyName, NameA, PingName, ServicesName}
ServerHandlers == {"h1", "h2", NullHandler}
S_ServiceSuffix == <<" ", "s", "e", "r", "v", "i", "c", "e">>

\* Mutant: the running flag is not looked at.
ServerRegisterServiceWhileRunning(running, m, service_name, handler) ==
    IF service_name = << >> THEN [ret |-> FALSE, map |-> m]
    ELSE IF handler = NullHandler THEN [ret |-> FALSE, map |-> m]
    ELSE RegisterService(m, service_name,
            ServiceInfo(service_name \o S_ServiceSuffix, "1.0.0", handler, TRUE))

\* Server::RegisterService(service_name, handler)
ServerRegisterService(running, m, service_name, handler) ==
    IF running THEN [ret |-> FALSE, map |-> m]
    ELSE IF service_name = << >> THEN [ret |-> FALSE, map |-> m]
    ELSE IF handler = NullHandler THEN [ret |-> FALSE, map |-> m]
    ELSE RegisterService(m, service_name,
            ServiceInfo(service_name \o S_ServiceSuffix, "1.0.0", handler, TRUE))

\* Server::UnregisterService(service_name)
ServerUnregisterService(running, m, service_name) ==
    IF running THEN [ret |-> FALSE, map |-> m]
    ELSE UnregisterService(m, service_name)

\* Server::RegisterInternalServices: three calls of Server::RegisterService
\* whose results are ignored.
RegisterInternalServices(running, m) ==
    LET m1 == ServerRegisterService(running, m, PingName, "ping_handler").map
        m2 == ServerRegisterService(running, m1, HotReloadStatusName,
                                    "hotreload_status_handler").map IN
    ServerRegisterService(running, m2, ServerStatsName,
                          "server_stats_handler").map

\* A call begins: the thread is in no other call and the process is alive.
ApiBegin ==
    /\ alive
    /\ apiPc = "idle"
    /\ nApiCalls < MaxApiCalls
    /\ nApiCalls' = nApiCalls + 1

ApiRegisterService(name, handler) ==
    /\ ApiBegin
    /\ LET r == ServerRegisterService(m_running, m_services, name, handler) IN
       /\ m_services' = r.map
       /\ apiCall' = [op |-> "RegisterService", name |-> name, ret |-> r.ret,
                      running |-> m_running]
    /\ UNCHANGED <<variant, m_static_file_handler, m_running, m_server_thread,
                   m_is_running, m_server_socket, apiPc, conns, alive,
                   regAtStart>>
    /\ UNCHANGED <<regVars, cliVars>>

ApiUnregisterService(name) ==
    /\ ApiBegin
    /\ LET r == ServerUnregisterService(m_running, m_services, name) IN
       /\ m_services' = r.map
       /\ apiCall' = [op |-> "UnregisterService", name |-> name,
                      ret |-> r.ret, running |-> m_running]
    /\ UNCHANGED <<variant, m_static_file_handler, m_running, m_server_thread,
                   m_is_running, m_server_socket, apiPc, conns, alive,
                   regAtStart>>
    /\ UNCHANGED <<regVars, cliVars>>

\* Server::Start: nothing when already running; else the internal services
\* are registered (router build), m_running is stored true and the thread
\* is assigned to m_server_thread, which calls std::terminate when
\* m_server_thread is still joinable.
ApiStart ==
    /\ ApiBegin
    /\ apiCall' = [op |-> "Start", name |-> EmptyName, ret |-> FALSE,
                   running |-> m_running]
    /\ IF m_running
       THEN UNCHANGED <<m_services, m_running, m_server_thread, alive,
                        regAtStart>>
       ELSE /\ m_services' = IF variant = "router"
                             THEN RegisterInternalServices(m_running, m_services)
                             ELSE m_services
            /\ m_running' = TRUE
            /\ regAtStart' = m_services'
            /\ IF m_server_thread = "not_joinable"
               THEN m_server_thread' = "start" /\ alive' = alive
               ELSE m_server_thread' = m_server_thread /\ alive' = FALSE
    /\ UNCHANGED <<variant, m_static_file_handler, m_is_running,
                   m_server_socket, apiPc, conns>>
    /\ UNCHANGED <<regVars, cliVars>>

\* Server::Stop: nothing when not running; else m_running is stored false.
ApiStop ==
    /\ ApiBegin
    /\ apiCall' = [op |-> "Stop", name |-> EmptyName, ret |-> FALSE,
                   running |-> m_running]
    /\ IF m_running
       THEN m_running' = FALSE /\ apiPc' = "stop_socket"
       ELSE UNCHANGED <<m_running, apiPc>>
    /\ UNCHANGED <<m_services, variant, m_static_file_handler, m_server_thread,
                   m_is_running, m_server_socket, conns, alive, regAtStart>>
    /\ UNCHANGED <<regVars, cliVars>>

\* Server::Stop: m_socket_server->Stop()
ApiStopSocket ==
    /\ alive
    /\ apiPc = "stop_socket"
    /\ IF m_is_running
       THEN m_is_running' = FALSE /\ m_server_socket' = "invalid"
       ELSE UNCHANGED <<m_is_running, m_server_socket>>
    /\ apiPc' = "stop_join"
    /\ UNCHANGED <<m_services, variant, m_static_file_handler, m_running,
                   m_server_thread, apiCall, conns, alive, regAtStart,
                   nApiCalls>>
    /\ UNCHANGED <<regVars, cliVars>>

\* Server::Stop: if (m_server_thread.joinable()) m_server_thread.join();
\* join returns once RunServer has returned.
ApiStopJoin ==
    /\ alive
    /\ apiPc = "stop_join"
    /\ m_server_thread \in {"not_joinable", "exit"}
    /\ m_server_thread' = "not_joinable"
    /\ apiPc' = "idle"
    /\ UNCHANGED <<m_services, variant, m_static_file_handler, m_running,
                   m_is_running, m_server_socket, apiCall, conns, alive,
                   regAtStart, nApiCalls>>
    /\ UNCHANGED <<regVars, cliVars>>

(***************************************************************************)
(* Server::RunServer on the server thread: SocketServer::Start, then       *)
(* SocketServer::Run.                                                      *)
(***************************************************************************)
\* m_socket_server->Start: false when already running or when socket,
\* bind or listen fails, and then RunServer stores false to m_running and
\* returns.
SocketStart(ok) ==
    /\ alive
    /\ m_server_thread = "start"
    /\ IF ~m_is_running /\ ok
       THEN /\ m_server_socket' = "listening"
            /\ m_is_running' = TRUE
            /\ m_server_thread' = "run"
            /\ UNCHANGED m_running
       ELSE /\ m_server_socket' = IF m_is_running THEN m_server_socket
                                  ELSE "invalid"
            /\ m_running' = FALSE
            /\ m_server_thread' = "exit"
            /\ UNCHANGED m_is_running
    /\ UNCHANGED <<m_services, variant, m_static_file_handler, apiPc, apiCall,
                   conns, alive, regAtStart, nApiCalls>>
    /\ UNCHANGED <<regVars, cliVars>>

\* Mutant: the loop condition is not looked at.
RunCheckIgnoresFlag ==
    /\ alive
    /\ m_server_thread \in {"run", "loop"}
    /\ m_server_thread' = "accept"
    /\ UNCHANGED <<m_services, variant, m_static_file_handler, m_running,
                   m_is_running, m_server_socket, apiPc, apiCall, conns, alive,
                   regAtStart, nApiCalls>>
    /\ UNCHANGED <<regVars, cliVars>>

\* SocketServer::Run: the check on entry and the loop condition.
RunCheck ==
    /\ alive
    /\ m_server_thread \in {"run", "loop"}
    /\ m_server_thread' = IF m_is_running THEN "accept" ELSE "exit"
    /\ UNCHANGED <<m_services, variant, m_static_file_handler, m_running,
                   m_is_running, m_server_socket, apiPc, apiCall, conns, alive,
                   regAtStart, nApiCalls>>
    /\ UNCHANGED <<regVars, cliVars>>

\* accept returns a connection and a thread is started for it and detached;
\* when the thread cannot be started std::system_error leaves Run, and
\* RunServer catches it and stores false to m_running.
AcceptConnection(c, spawned) ==
    /\ alive
    /\ m_server_thread = "accept"
    /\ m_server_socket = "listening"
    /\ conns[c].pc = "none"
    /\ IF spawned
       THEN /\ conns' = [conns EXCEPT ![c].pc = "spawned"]
            /\ m_server_thread' = "loop"
            /\ UNCHANGED m_running
       ELSE /\ conns' = [conns EXCEPT ![c].pc = "leaked"]
            /\ m_server_thread' = "exit"
            /\ m_running' = FALSE
    /\ UNCHANGED <<m_services, variant, m_static_file_handler, m_is_running,
                   m_server_socket, apiPc, apiCall, alive, regAtStart,
                   nApiCalls>>
    /\ UNCHANGED <<regVars, cliVars>>

\* accept returns INVALID_SOCKET: the loop goes on (after a sleep when the
\* server is still running).
AcceptFails ==
    /\ alive
    /\ m_server_thread = "accept"
    /\ m_server_thread' = "loop"
    /\ UNCHANGED <<m_services, variant, m_static_file_handler, m_running,
                   m_is_running, m_server_socket, apiPc, apiCall, conns, alive,
                   regAtStart, nApiCalls>>
    /\ UNCHANGED <<regVars, cliVars>>

(***************************************************************************)
(* SocketServer::HandleClient on a connection's thread.                    *)
(***************************************************************************)
\* ReceiveData returns nothing: the socket is closed and the thread ends.
ClientReceivesNothing(c) ==
    /\ alive
    /\ conns[c].pc = "spawned"
    /\ conns' = [conns EXCEPT ![c].pc = "closed"]
    /\ UNCHANGED <<m_services, variant, m_static_file_handler, m_running,
                   m_server_thread, m_is_running, m_server_socket, apiPc,
                   apiCall, alive, regAtStart, nApiCalls>>
    /\ UNCHANGED <<regVars, cliVars>>

\* ReceiveData returns request_data and handler(request_data) is called,
\* which is Server::HandleRequest.  What is not a std::exception leaves
\* HandleClient and the thread function: std::terminate.
ClientHandlesRequest(c, request_data, env, fault) ==
    /\ alive
    /\ conns[c].pc = "spawned"
    /\ LET r == HandleRequest(variant, m_static_file_handler, m_services,
                              request_data, env, fault) IN
       /\ conns' = [conns EXCEPT ![c] =
                      [pc |-> IF r = Escaped THEN "terminate" ELSE "send",
                       raw |-> request_data, fault |-> fault,
                       result |-> r]]
       /\ alive' = (r # Escaped)
    /\ UNCHANGED <<m_services, variant, m_static_file_handler, m_running,
                   m_server_thread, m_is_running, m_server_socket, apiPc,
                   apiCall, regAtStart, nApiCalls>>
    /\ UNCHANGED <<regVars, cliVars>>

\* SendData, whether it succeeds or not, then CloseSocket.
ClientSendsAndCloses(c) ==
    /\ alive
    /\ conns[c].pc = "send"
    /\ conns' = [conns EXCEPT ![c] = [ConnInit EXCEPT !.pc = "closed"]]
    /\ UNCHANGED <<m_services, variant, m_static_file_handler, m_running,
                   m_server_thread, m_is_running, m_server_socket, apiPc,
                   apiCall, alive, regAtStart, nApiCalls>>
    /\ UNCHANGED <<regVars, cliVars>>

\* After construction: m_running has no initialiser in either constructor,
\* so its first value is indeterminate.
InitServer ==
    /\ m_services = EmptyMap
    /\ RegistryThreadsInit
    /\ variant \in {"router", "inline"}
    /\ m_static_file_handler \in BOOLEAN
    /\ variant = "inline" => ~m_static_file_handler
    /\ m_running \in BOOLEAN
    /\ ServerMembersInit
    /\ ClientIdle

NextServer ==
    \/ \E n \in ServerNames, h \in ServerHandlers : ApiRegisterService(n, h)
    \/ \E n \in ServerNames : ApiUnregisterService(n)
    \/ ApiStart
    \/ ApiStop
    \/ ApiStopSocket
    \/ ApiStopJoin
    \/ \E ok \in BOOLEAN : SocketStart(ok)
    \/ RunCheck
    \/ \E c \in Connections, spawned \in BOOLEAN : AcceptConnection(c, spawned)
    \/ AcceptFails
    \/ \E c \in Connections : ClientReceivesNothing(c)
    \/ \E c \in Connections, raw \in RawRequests, env \in Envs :
          ClientHandlesRequest(c, raw, env, FALSE)
    \/ \E c \in Connections, raw \in RawRequests :
          ClientHandlesRequest(c, raw, CHOOSE env \in Envs : TRUE, TRUE)
    \/ \E c \in Connections : ClientSendsAndCloses(c)

SpecServer == InitServer /\ [][NextServer]_vars

(***************************************************************************)
(* One connection read by read: SocketServer::ReceiveData and the rest of  *)
(* SocketServer::HandleClient, for any handler.                            *)
(***************************************************************************)
\* char buffer[8192]; recv is given sizeof(buffer) - 1
BufferSize == 8192

\* The size guard of ReceiveData: 1 * 1024 * 1024
MaxReceiveSize == 1048576

S_HeaderEnd == S_CRLF \o S_CRLF
S_ContentLengthLabel ==
    <<"C", "o", "n", "t", "e", "n", "t", "-", "L", "e", "n", "g", "t", "h",
      ":", " ">>

\* What a peer sends, in the pieces it can arrive in.
RequestLinePost ==
    <<"P", "O", "S", "T", " ", "/", "s", "e", "r", "v", "i", "c", "e", "/",
      "a", " ", "H", "T", "T", "P", "/", "1", ".", "1", "\r", "\n">>
RequestLineEscapes ==
    <<"G", "E", "T", " ", "/", "%", "4", "1", "+", "%", "1", "G", "%", "4",
      "?", "%", "4", "1", "+", "b", " ", "H", "T", "T", "P", "/", "1", ".",
      "1", "\r", "\n">>
ContentLength3 ==
    <<"C", "o", "n", "t", "e", "n", "t", "-", "L", "e", "n", "g", "t", "h",
      ":", " ", "3", "\r", "\n">>
ContentLength2MiB ==
    <<"C", "o", "n", "t", "e", "n", "t", "-", "L", "e", "n", "g", "t", "h",
      ":", " ", "2", "0", "9", "7", "1", "5", "2", "\r", "\n">>
ContentLength5x ==
    <<"C", "o", "n", "t", "e", "n", "t", "-", "L", "e", "n", "g", "t", "h",
      ":", " ", "5", "x", "\r", "\n">>
Body_abc == <<"a", "b", "c">>
Body_ab_LF == <<"a", "b", "\n">>
Body_LF_ab == <<"\n", "a", "b">>

\* Header lines a peer sends (without the CRLF that ends each): a plain
\* one, the same name in another case with no space, white space around the
\* name and the value, no colon, more than one colon, an empty name, and
\* white space only.
RequestLineGet ==
    <<"G", "E", "T", " ", "/", "a", " ", "H", "T", "T", "P", "/", "1", ".",
      "1", "\r", "\n">>
HeaderLines ==
    {<<"H", "o", "s", "t", ":", " ", "a">>,
     <<"h", "o", "s", "t", ":", "b">>,
     <<" ", "X", "-", "A", " ", ":", " ", "v", " ", "w", " ">>,
     <<"n", "o", "c", "o", "l", "o", "n">>,
     <<"a", ":", "b", ":", "c">>,
     <<":", "v">>,
     <<" ", " ">>}
MaxHeaderLines == 2
HeaderLineSeqs == UNION {[1..n -> HeaderLines] : n \in 0..MaxHeaderLines}

RECURSIVE JoinLines(_)
JoinLines(lines) ==
    IF lines = << >> THEN << >>
    ELSE Head(lines) \o S_CRLF \o JoinLines(Tail(lines))

\* The request with the header lines hs and no body, arriving in one read.
HeaderMessage(hs) ==
    [pieces |-> <<RequestLineGet \o JoinLines(hs) \o S_CRLF>>,
     filler |-> FALSE]

\* The messages a peer sends: pieces, each of which arrives whole, and then,
\* when filler is true, filler bytes (none of them a CR, an LF or part of a
\* header name) for as long as the server reads.
Messages ==
    {[pieces |-> <<RequestLinePost, ContentLength3, S_CRLF, b>>,
      filler |-> FALSE] : b \in {Body_abc, Body_ab_LF, Body_LF_ab}}
    \cup
    {[pieces |-> <<RequestLineEscapes, S_CRLF>>, filler |-> FALSE],
     [pieces |-> <<RequestLinePost, ContentLength2MiB, S_CRLF>>,
      filler |-> TRUE],
     [pieces |-> <<RequestLinePost, S_CRLF, ContentLength2MiB>>,
      filler |-> TRUE],
     [pieces |-> <<RequestLinePost, ContentLength5x, S_CRLF, Body_abc>>,
      filler |-> FALSE],
     [pieces |-> <<RequestLinePost>>, filler |-> TRUE]}
    \cup
    {HeaderMessage(hs) : hs \in HeaderLineSeqs}

RECURSIVE Concat(_, _, _)
Concat(pieces, from, to) ==
    IF from > to THEN << >>
    ELSE pieces[from] \o Concat(pieces, from + 1, to)

\* A size_t larger than any number of bytes ReceiveData reads: the values
\* above it are kept as this one.
SizeCap == 1073741824

Digits == <<"0", "1", "2", "3", "4", "5", "6", "7", "8", "9">>
IsDigit(c) == \E i \in 1..10 : Digits[i] = c
DigitValue(c) == (CHOOSE i \in 1..10 : Digits[i] = c) - 1

\* The value of a string of decimal digits, kept at SizeCap from there on.
RECURSIVE DecimalValue(_, _)
DecimalValue(digits, acc) ==
    IF digits = << >> THEN acc
    ELSE LET v == 10 * acc + DigitValue(Head(digits)) IN
         DecimalValue(Tail(digits), IF v > SizeCap THEN SizeCap ELSE v)

\* ULONG_MAX, for a 64-bit unsigned long
ULongMaxDigits ==
    <<"1", "8", "4", "4", "6", "7", "4", "4", "0", "7", "3", "7", "0", "9",
      "5", "5", "1", "6", "1", "5">>

\* digits, without leading zeros, is a number above ULONG_MAX
ExceedsULong(digits) ==
    \/ Len(digits) > Len(ULongMaxDigits)
    \/ /\ Len(digits) = Len(ULongMaxDigits)
       /\ \E i \in 1..Len(digits) :
             /\ \A j \in 1..(i - 1) : digits[j] = ULongMaxDigits[j]
             /\ DigitValue(digits[i]) > DigitValue(ULongMaxDigits[i])

\* try { content_length = std::stoul(length_str); } catch (...) { = 0 }:
\* white space is skipped, a sign and the decimal digits that follow are
\* read and whatever comes after them is ignored; with no digit
\* (std::invalid_argument) or a number above ULONG_MAX (std::out_of_range)
\* the value is 0; a '-' negates the number as an unsigned long.
StoulOrZero(length_str) ==
    LET nonws == {i \in 1..Len(length_str) : length_str[i] \notin WhiteSpace}
        start == IF nonws = {} THEN Len(length_str) + 1
                 ELSE CHOOSE i \in nonws : \A j \in nonws : i <= j
        signed == start <= Len(length_str) /\ length_str[start] \in {"+", "-"}
        first == IF signed THEN start + 1 ELSE start
        nondigit == {i \in first..Len(length_str) : ~IsDigit(length_str[i])}
        stop == IF nondigit = {} THEN Len(length_str) + 1
                ELSE CHOOSE i \in nondigit : \A j \in nondigit : i <= j
        digits == SubSeq(length_str, first, stop - 1)
        nonzero == {i \in 1..Len(digits) : digits[i] # "0"}
        significant == IF nonzero = {} THEN << >>
                       ELSE SubSeq(digits,
                                   CHOOSE i \in nonzero : \A j \in nonzero : i <= j,
                                   Len(digits))
        value == DecimalValue(significant, 0) IN
    IF digits = << >> THEN 0
    ELSE IF ExceedsULong(significant) THEN 0
    ELSE IF signed /\ length_str[start] = "-" /\ value # 0 THEN SizeCap
    ELSE value

\* The header detection of ReceiveData on the data read so far, run when
\* headers_complete is false: whether "\r\n\r\n" was found, headers_end_pos
\* and content_length.
DetectHeaders(d) ==
    LET end_pos == FindStr(d, S_HeaderEnd, 1) IN
    IF end_pos = 0
    THEN [headers_complete |-> FALSE, headers_end_pos |-> 0,
          content_length |-> 0]
    ELSE LET content_length_pos == FindStr(d, S_ContentLengthLabel, 1)
             value_pos == content_length_pos + Len(S_ContentLengthLabel)
             line_end == IF content_length_pos = 0 THEN 0
                         ELSE FindStr(d, S_CRLF, value_pos) IN
         [headers_complete |-> TRUE,
          headers_end_pos |-> (end_pos - 1) + 4,
          content_length |->
             IF content_length_pos = 0 \/ line_end = 0 THEN 0
             ELSE StoulOrZero(SubSeq(d, value_pos, line_end - 1))]

\* What ReceiveData can hold of a message: its first pieces.
ReceivedTexts ==
    UNION {{Concat(m.pieces, 1, k) : k \in 0..Len(m.pieces)} : m \in Messages}

\* DetectHeaders and HttpParser::ParseRequest applied to each of them.
DetectedHeaders == [d \in ReceivedTexts |-> DetectHeaders(d)]
ParsedTexts == [d \in ReceivedTexts |-> ParseRequest(d)]

\* One pass of the loop of ReceiveData in which recv returned received > 0
\* bytes: text followed by fill filler bytes.  The bytes are appended, the
\* headers are looked for when they are not complete yet, and the loop ends
\* when the body is complete, when no body is expected, or on the size
\* guard.
ReceiveBytes(text, fill) ==
    LET d == data \o text
        total == total_received + Len(text) + fill
        h == IF headers_complete
             THEN [headers_complete |-> TRUE,
                   headers_end_pos |-> headers_end_pos,
                   content_length |-> content_length]
             ELSE DetectedHeaders[d]
        current_body_size == Len(d) + filler_size + fill - h.headers_end_pos
        why == IF h.headers_complete /\ h.content_length > 0
               THEN IF current_body_size >= h.content_length THEN "complete"
                    ELSE IF total > MaxReceiveSize THEN "guard" ELSE "none"
               ELSE IF h.headers_complete /\ h.content_length = 0
               THEN "no_body"
               ELSE IF total > MaxReceiveSize THEN "guard" ELSE "none" IN
    /\ hcPc = "recv"
    /\ Len(text) + fill > 0
    /\ Len(text) + fill <= BufferSize - 1
    /\ data' = d
    /\ filler_size' = filler_size + fill
    /\ total_received' = total
    /\ headers_complete' = h.headers_complete
    /\ headers_end_pos' = h.headers_end_pos
    /\ content_length' = h.content_length
    /\ cycle' = [cycle EXCEPT !.reads = @ + 1, !.why = why]
    /\ hcPc' = IF why = "none" THEN "recv" ELSE "returned"

\* recv returns the next k pieces of the message.
RecvPieces(k) ==
    /\ filler_size = 0
    /\ peer.delivered + k <= Len(peer.message.pieces)
    /\ ReceiveBytes(Concat(peer.message.pieces, peer.delivered + 1,
                           peer.delivered + k), 0)
    /\ peer' = [peer EXCEPT !.delivered = @ + k]
    /\ UNCHANGED <<m_services, regVars, srvVars>>

\* recv fills the buffer with filler bytes.
RecvFiller ==
    /\ peer.message.filler
    /\ peer.delivered = Len(peer.message.pieces)
    /\ ReceiveBytes(<< >>, BufferSize - 1)
    /\ UNCHANGED <<peer, m_services, regVars, srvVars>>

\* Mutant: the loop is not left when recv returns 0 or less.
RecvEndsWithoutBreak(received) ==
    /\ hcPc = "recv"
    /\ received <= 0
    /\ cycle' = [cycle EXCEPT !.why = IF received = 0 THEN "closed"
                                      ELSE "error"]
    /\ hcPc' = "recv"
    /\ UNCHANGED <<peer, data, filler_size, total_received, headers_complete,
                   content_length, headers_end_pos>>
    /\ UNCHANGED <<m_services, regVars, srvVars>>

\* recv returns 0 (the peer has closed) or less (an error, or the 30 second
\* timeout): the loop ends and ReceiveData returns what it has read.
RecvEnds(received) ==
    /\ hcPc = "recv"
    /\ received <= 0
    /\ cycle' = [cycle EXCEPT !.reads = @ + 1,
                              !.why = IF received = 0 THEN "closed"
                                      ELSE "error"]
    /\ hcPc' = "returned"
    /\ UNCHANGED <<peer, data, filler_size, total_received, headers_complete,
                   content_length, headers_end_pos>>
    /\ UNCHANGED <<m_services, regVars, srvVars>>

\* HandleClient: request_data is empty: the socket is closed and the thread
\* returns.
HandleClientNoData ==
    /\ hcPc = "returned"
    /\ Len(data) + filler_size = 0
    /\ cycle' = [cycle EXCEPT !.closes = @ + 1]
    /\ hcPc' = "done"
    /\ UNCHANGED <<peer, data, filler_size, total_received, headers_complete,
                   content_length, headers_end_pos>>
    /\ UNCHANGED <<m_services, regVars, srvVars>>

\* Mutant: request_data is not tested for being empty.
HandleClientCallsHandlerOnEmpty(outcome) ==
    /\ hcPc = "returned"
    /\ cycle' = [cycle EXCEPT !.handler_calls = @ + 1,
                              !.request = ParsedTexts[data]]
    /\ hcPc' = CASE outcome = "returns" -> "send"
                 [] outcome = "std_exception" -> "close"
                 [] outcome = "other_exception" -> "terminate"
    /\ UNCHANGED <<peer, data, filler_size, total_received, headers_complete,
                   content_length, headers_end_pos>>
    /\ UNCHANGED <<m_services, regVars, srvVars>>

\* HandleClient: handler(request_data), which begins by parsing
\* request_data (Server::HandleRequest) and ends as outcome says: with a
\* response to send, with a std::exception, which HandleClient catches, or
\* with something else thrown, which leaves the thread function
\* (std::terminate).
HandleClientCallsHandler(outcome) ==
    /\ hcPc = "returned"
    /\ Len(data) + filler_size > 0
    /\ cycle' = [cycle EXCEPT !.handler_calls = @ + 1,
                              !.request = ParsedTexts[data]]
    /\ hcPc' = CASE outcome = "returns" -> "send"
                 [] outcome = "std_exception" -> "close"
                 [] outcome = "other_exception" -> "terminate"
    /\ UNCHANGED <<peer, data, filler_size, total_received, headers_complete,
                   content_length, headers_end_pos>>
    /\ UNCHANGED <<m_services, regVars, srvVars>>

\* The size of the serialized response SendData is given.
ResponseSize == 3

\* HandleClient: SendData(client_socket, response), one pass of its loop:
\* send returns SOCKET_ERROR, and SendData returns false (which is logged), or
\* it returns the number of bytes it took, at least one of those left, and
\* the loop ends with true when all have been sent.
HandleClientSends(sent) ==
    /\ hcPc = "send"
    /\ cycle.total_sent < ResponseSize
    /\ \/ sent = -1
       \/ sent >= 1 /\ sent <= ResponseSize - cycle.total_sent
    /\ IF sent = -1
       THEN /\ cycle' = [cycle EXCEPT !.sent = FALSE]
            /\ hcPc' = "close"
       ELSE LET total == cycle.total_sent + sent IN
            /\ cycle' = [cycle EXCEPT !.total_sent = total,
                                      !.sent = ~(total < ResponseSize)]
            /\ hcPc' = IF total < ResponseSize THEN "send" ELSE "close"
    /\ UNCHANGED <<peer, data, filler_size, total_received, headers_complete,
                   content_length, headers_end_pos>>
    /\ UNCHANGED <<m_services, regVars, srvVars>>

\* HandleClient: the CloseSocket after the try block.
HandleClientCloses ==
    /\ hcPc = "close"
    /\ cycle' = [cycle EXCEPT !.closes = @ + 1]
    /\ hcPc' = "done"
    /\ UNCHANGED <<peer, data, filler_size, total_received, headers_complete,
                   content_length, headers_end_pos>>
    /\ UNCHANGED <<m_services, regVars, srvVars>>

\* A connection has been accepted and its thread is about to call
\* ReceiveData; the peer sends one of the messages.
InitClient ==
    /\ m_services = EmptyMap
    /\ RegistryThreadsInit
    /\ variant = "router"
    /\ m_static_file_handler = FALSE
    /\ m_running = TRUE
    /\ ServerMembersInit
    /\ \E message \in Messages : ReceiveDataInit(message)
    /\ hcPc = "recv"

NextClient ==
    \/ \E k \in 1..4 : RecvPieces(k)
    \/ RecvFiller
    \/ \E received \in {0, -1} : RecvEnds(received)
    \/ HandleClientNoData
    \/ \E outcome \in Outcomes : HandleClientCallsHandler(outcome)
    \/ \E sent \in -1..ResponseSize : HandleClientSends(sent)
    \/ HandleClientCloses

SpecClient == InitClient /\ [][NextClient]_vars

\* The connection's thread keeps running: every recv and send call returns
\* and so does the handler.
SpecClientFair == SpecClient /\ WF_vars(NextClient)

(***************************************************************************)
(* Properties                                                              *)
(***************************************************************************)
\* The step in which a registry call of thread w returns: the end of its
\* critical section, or the early return of a call with an empty name.
AdminReturnStep(w) ==
    /\ apc'[w] = "ret"
    /\ apc[w] = "crit" \/ nAdminOps' # nAdminOps

OthersUnchanged(name) ==
    \A k \in DOMAIN m_services \ {name} :
        k \in DOMAIN m_services' /\ m_services'[k] = m_services[k]

Finished(t) == pc[t] = "done"
Status(t) == inv[t].result.response.status

\* C1: RegisterService(name, info) returns false and leaves the map unchanged
\* when name is empty or already a key; otherwise it returns true and the map
\* is the old map plus exactly name -> info.  A handler that is called is the
\* handler of the entry the lookup found, so after a second registration of a
\* name was refused the first registration's handler still runs.
C1_RegisterContract ==
    [][ /\ \A w \in Admins :
             (AdminReturnStep(w) /\ aop'[w].op = "Register") =>
                LET name == aop'[w].name IN
                IF name = EmptyName \/ name \in DOMAIN m_services
                THEN aop'[w].ret = FALSE /\ m_services' = m_services
                ELSE /\ aop'[w].ret = TRUE
                     /\ DOMAIN m_services' = DOMAIN m_services \cup {name}
                     /\ m_services'[name] = aop[w].info.value
                     /\ OthersUnchanged(name)
        /\ \A t \in Invokers :
             (pc[t] = "call" /\ pc'[t] = "running") =>
                \E h \in Handlers :
                   /\ callCount'[h] = callCount[h] + 1
                   /\ inv[t].service_opt.value.handler = h
        /\ \A t \in Invokers :
             (pc[t] = "get_read" /\ pc'[t] = "call") =>
                inv'[t].service_opt = Some(m_services[inv[t].name])
      ]_vars

\* C1 witness: a second registration of a name was refused, the entry is
\* still the first one, and an invocation of the name ran the first handler.
C1_Witness ==
    \E w \in Admins, t \in Invokers :
        /\ apc[w] = "ret" /\ aop[w].op = "Register" /\ ~aop[w].ret
        /\ aop[w].name \in DOMAIN m_services
        /\ m_services[aop[w].name].handler = "h1"
        /\ Finished(t) /\ inv[t].name = aop[w].name /\ ~inv[t].changed
        /\ inv[t].result = Returned(HandlerApply("h1", RequestOf(t)))

\* The raw request POST /service/<name>.
ServicePost(name) == RawRequest(S_POST, S_ServicePrefix \o name)

\* A JSON body with an "error" field.
IsJsonError(body) == body.kind = "json" /\ "error" \in DOMAIN body.fields

\* C2: HandleServiceRequest(request, name) returns 404 when the lookup finds
\* no entry, 500 when it finds the entry disabled, and otherwise, when the
\* handler returns, exactly the handler's response to the request; when the
\* map has not changed since the call began, what the lookup found is what
\* the map holds.  End to end, in both builds, the answer to
\* POST /service/<name> for a name that is not registered is a 404 whose body
\* is JSON with an "error" field.
C2_InvokeContract ==
    /\ \A t \in Invokers :
          Finished(t) =>
            /\ inv[t].seen = "absent" =>
                  /\ inv[t].result.kind = "response"
                  /\ Status(t) = NotFound
                  /\ IsJsonError(inv[t].result.response.body)
            /\ inv[t].seen = "disabled" =>
                  /\ inv[t].result.kind = "response"
                  /\ Status(t) = InternalServerError
            /\ (inv[t].seen = "enabled" /\ inv[t].raised = "none") =>
                  inv[t].result =
                     Returned(HandlerApply(inv[t].service_opt.value.handler,
                                           inv[t].request))
            /\ ~inv[t].changed =>
                  /\ inv[t].seen = Seen(GetService(m_services, inv[t].name))
                  /\ inv[t].seen = "enabled" =>
                        inv[t].service_opt.value.handler =
                           m_services[inv[t].name].handler
    /\ \A name \in Names \ (DOMAIN m_services \cup {EmptyName}) :
          \A v \in {"router", "inline"}, static \in BOOLEAN, env \in Envs :
             LET r == HandleRequest(v, static /\ v = "router", m_services,
                                    ServicePost(name), env, FALSE) IN
             /\ r.kind = "response"
             /\ r.response.status = NotFound
             /\ IsJsonError(r.response.body)

\* C2 witness: with "a" registered and "b" not, one invocation of "a"
\* returned its handler's response and one of "b" returned 404.
C2_Witness ==
    \E t \in Invokers, u \in Invokers :
        /\ Finished(t) /\ Finished(u)
        /\ ~inv[t].changed /\ ~inv[u].changed
        /\ DOMAIN m_services = {NameA}
        /\ inv[t].name = NameA
        /\ inv[t].result = Returned(HandlerApply("h1", RequestOf(t)))
        /\ inv[u].name = NameB /\ Status(u) = NotFound
        /\ ServicePost(NameB) \in RawRequests

\* C3: an invocation that finds the service disabled returns 500 and does not
\* enter the handler; one that finds it enabled enters the handler exactly
\* once; a handler's call count changes only by such an entry.  When the map
\* has not changed since the invocation began, what it found is what the map
\* holds (so an invocation after EnableService returned true calls the
\* handler once).
C3_Inv ==
    \A t \in Invokers :
        Finished(t) =>
          /\ inv[t].seen = "disabled" =>
                /\ inv[t].result.kind = "response"
                /\ Status(t) = InternalServerError
                /\ inv[t].calls = 0
          /\ inv[t].seen = "enabled" => inv[t].calls = 1
          /\ (~inv[t].changed /\ HasService(m_services, inv[t].name)) =>
                inv[t].seen = IF m_services[inv[t].name].enabled
                              THEN "enabled" ELSE "disabled"

C3_DisabledNeverCalled ==
    [][ /\ C3_Inv'
        /\ \A h \in Handlers :
             callCount'[h] # callCount[h] =>
                \E t \in Invokers :
                   /\ pc[t] = "call" /\ pc'[t] = "running"
                   /\ inv[t].seen = "enabled"
                   /\ inv[t].service_opt.value.handler = h
                   /\ callCount'[h] = callCount[h] + 1
                   /\ inv'[t].calls = 1
      ]_vars

\* C3 witness: one invocation found the service disabled (500, no call),
\* EnableService then returned true, and a further invocation called the
\* handler once.
C3_Witness ==
    \E w \in Admins, t \in Invokers, u \in Invokers :
        /\ t # u /\ Finished(t) /\ Finished(u)
        /\ inv[t].name = inv[u].name
        /\ inv[t].seen = "disabled" /\ inv[t].calls = 0
        /\ Status(t) = InternalServerError
        /\ apc[w] = "ret" /\ aop[w].op = "Enable" /\ aop[w].ret
        /\ aop[w].name = inv[t].name
        /\ inv[u].seen = "enabled" /\ inv[u].calls = 1 /\ ~inv[u].changed
        /\ callCount[inv[u].service_opt.value.handler] = 1

\* C4 (as claimed): whatever a handler raises, the request that reached it
\* is answered (with a 500) and its connection thread goes on to send and
\* close: a connection whose request has been handled holds a response.
C4_HandlerFailureContained ==
    \A c \in Connections :
        conns[c].result # NoResult =>
            /\ conns[c].result.kind = "response"
            /\ conns[c].pc = "send"

\* C5 (as claimed): a handler runs while its thread holds the shared lock, so
\* no registry mutation is inside its critical section, or returns, while a
\* handler is executing.
C5_HandlerRunsUnderReadLock ==
    \A t \in Invokers :
        pc[t] = "running" =>
          /\ t \in readers
          /\ \A w \in Admins : apc[w] # "crit"

\* C6: whatever the other thread's handler does (it may never return), an
\* invocation that has begun completes.
C6_InvocationsIndependent ==
    (pc["c2"] = "get_lock") ~> (pc["c2"] = "done")

\* C6 witness: c1's handler is still executing and c2's invocation of another
\* service has completed with its handler's response.
C6_Witness ==
    /\ pc["c1"] = "running" /\ pc["c2"] = "done"
    /\ inv["c1"].name # inv["c2"].name
    /\ inv["c2"].seen = "enabled"
    /\ inv["c2"].result =
          Returned(HandlerApply(inv["c2"].service_opt.value.handler,
                                RequestOf("c2")))

\* C7: UnregisterService(name) returns false and leaves the map unchanged when
\* name is not a key; otherwise it returns true and removes exactly that
\* entry, and GetService/HasService then report it absent.
C7_UnregisterContract ==
    [][ \A w \in Admins :
          (AdminReturnStep(w) /\ aop'[w].op = "Unregister") =>
             LET name == aop'[w].name IN
             IF name \notin DOMAIN m_services
             THEN aop'[w].ret = FALSE /\ m_services' = m_services
             ELSE /\ aop'[w].ret = TRUE
                  /\ DOMAIN m_services' = DOMAIN m_services \ {name}
                  /\ OthersUnchanged(name)
                  /\ GetServiceCount(m_services') = GetServiceCount(m_services) - 1
                  /\ ~HasService(m_services', name)
                  /\ GetService(m_services', name) = NullOpt
      ]_vars

\* C7 witness: an unregistration returned true and another entry is left.
C7_Witness ==
    \E w \in Admins :
        /\ apc[w] = "ret" /\ aop[w].op = "Unregister" /\ aop[w].ret
        /\ aop[w].name \notin DOMAIN m_services
        /\ m_services # EmptyMap

\* C8: EnableService/DisableService return false and change nothing when the
\* name is not registered; otherwise they return true and set only that
\* entry's enabled flag; doing it again changes nothing.
C8_EnableDisableContract ==
    [][ \A w \in Admins :
          (AdminReturnStep(w) /\ aop'[w].op \in {"Enable", "Disable"}) =>
             LET name == aop'[w].name
                 flag == (aop'[w].op = "Enable") IN
             IF name \notin DOMAIN m_services
             THEN aop'[w].ret = FALSE /\ m_services' = m_services
             ELSE /\ aop'[w].ret = TRUE
                  /\ DOMAIN m_services' = DOMAIN m_services
                  /\ m_services'[name] = [m_services[name] EXCEPT !.enabled = flag]
                  /\ OthersUnchanged(name)
                  /\ ApplyAdminOp(m_services', aop'[w]) =
                        [ret |-> TRUE, map |-> m_services']
      ]_vars

\* C8 witness: a registered entry's flag was changed by DisableService while
\* another entry was present.
C8_Witness ==
    \E w \in Admins :
        /\ apc[w] = "ret" /\ aop[w].op = "Disable" /\ aop[w].ret
        /\ ~m_services[aop[w].name].enabled
        /\ m_services[aop[w].name].handler = "h1"
        /\ DOMAIN m_services = {NameA, NameB}

\* C9: Server::RegisterService and Server::UnregisterService called while
\* m_running is true return false; no step taken while m_running is true
\* changes the registry; and when Stop() stores false to m_running the
\* registry is what it was when m_running was stored true.
C9_RegistryFrozenWhileRunning ==
    [][ /\ m_running => m_services' = m_services
        /\ ( /\ nApiCalls' # nApiCalls
             /\ apiCall'.op \in {"RegisterService", "UnregisterService"}
             /\ m_running ) => ~apiCall'.ret
        /\ ( /\ nApiCalls' # nApiCalls
             /\ apiCall'.op = "Stop"
             /\ m_running /\ ~m_running' ) => m_services = regAtStart
      ]_vars

\* C9 witness: Start() has run in the router build, a RegisterService("a")
\* made while running returned false, and "a" is not registered.
C9_Witness ==
    /\ PingName \in DOMAIN regAtStart
    /\ apiCall.op = "RegisterService" /\ apiCall.name = NameA
    /\ apiCall.running /\ ~apiCall.ret
    /\ m_running
    /\ NameA \notin DOMAIN m_services

\* The standard CORS headers.
HasCorsHeaders(response) ==
    /\ "Access-Control-Allow-Origin" \in DOMAIN response.headers
    /\ response.headers["Access-Control-Allow-Origin"] = "*"
    /\ "Access-Control-Allow-Methods" \in DOMAIN response.headers
    /\ "Access-Control-Allow-Headers" \in DOMAIN response.headers

\* C10 (as claimed): every serialized response about to be sent carries the
\* standard CORS headers.
C10_EveryResponseHasCors ==
    \A c \in Connections :
        conns[c].pc = "send" => HasCorsHeaders(conns[c].result.response)

\* A connection whose request Server::HandleRequest has handled with nothing
\* thrown outside the routing, and the request ParseRequest made of it.
Handled(c) == conns[c].result # NoResult /\ ~conns[c].fault
Parsed(c) == ParsedRequests[conns[c].raw]

\* The step in which connection c's thread calls Server::HandleRequest.
HandlesNow(c) ==
    /\ conns[c].pc = "spawned"
    /\ conns'[c].result # NoResult
    /\ ~conns'[c].fault

\* C11: a request with method OPTIONS is answered with status 200, an empty
\* body and the headers Access-Control-Allow-Origin, -Allow-Methods,
\* -Allow-Headers and -Max-Age (86400), whatever its path, the registry and
\* the way a handler call would end: the answer is a response and nothing
\* leaves HandleRequest, so no handler was called.
C11_OptionsPreflight ==
    \A c \in Connections :
        (Handled(c) /\ Parsed(c).ok /\ Parsed(c).method = "OPTIONS") =>
            /\ conns[c].pc = "send"
            /\ conns[c].result.kind = "response"
            /\ LET response == conns[c].result.response IN
               /\ response.status = OK
               /\ response.body = EmptyBody
               /\ HasCorsHeaders(response)
               /\ "Access-Control-Max-Age" \in DOMAIN response.headers
               /\ response.headers["Access-Control-Max-Age"] = "86400"

\* C11 witness: OPTIONS /service/a was answered with 200 while "a" is
\* registered with a user's handler.
C11_Witness ==
    \E c \in Connections :
        /\ Handled(c)
        /\ conns[c].raw = RawRequest(S_OPTIONS, S_ServiceA)
        /\ conns[c].pc = "send"
        /\ conns[c].result.response.status = OK
        /\ NameA \in DOMAIN m_services
        /\ m_services[NameA].handler \in {"h1", "h2"}

\* C12 (as claimed): GET /ping on a running server is answered with status
\* 200 and a JSON body whose "status" is "ok", whatever services were
\* registered through Server::RegisterService before Start().
C12_PingAnswersOk ==
    \A c \in Connections :
        (Handled(c) /\ conns[c].raw = RawRequest(S_GET, S_Ping)) =>
            /\ conns[c].result.kind = "response"
            /\ conns[c].result.response.status = OK
            /\ LET body == conns[c].result.response.body IN
               /\ body.kind = "json"
               /\ "status" \in DOMAIN body.fields
               /\ body.fields.status = "ok"

\* C13 (as claimed): GET /services is answered with status 200 and a JSON
\* listing with one element (name, description, version, enabled) for
\* exactly each entry of the registry at the time of the call, and a total
\* equal to the number of entries.
C13_ServicesListing ==
    [][ \A c \in Connections :
          (HandlesNow(c) /\ conns'[c].raw = RawRequest(S_GET, S_Services)) =>
              /\ conns'[c].result.kind = "response"
              /\ conns'[c].result.response.status = OK
              /\ LET body == conns'[c].result.response.body IN
                 /\ body.kind = "json"
                 /\ DOMAIN body.fields = {"services", "total"}
                 /\ DOMAIN body.fields.services = DOMAIN m_services
                 /\ \A n \in DOMAIN m_services :
                       body.fields.services[n] =
                          [description |-> m_services[n].description,
                           version |-> m_services[n].version,
                           enabled |-> m_services[n].enabled]
                 /\ body.fields.total = Cardinality(DOMAIN m_services)
      ]_vars

\* The remainder of a path after "/service/", cut at the first "?" or "#".
ServiceNameOf(path) ==
    LET rest == SubstrFrom(path, Len(S_ServicePrefix))
        cuts == {i \in 1..Len(rest) : rest[i] \in {"?", "#"}} IN
    IF cuts = {} THEN rest
    ELSE SubSeq(rest, 1, (CHOOSE i \in cuts : \A j \in cuts : i <= j) - 1)

IsServicePath(path) ==
    /\ Len(path) >= Len(S_ServicePrefix)
    /\ SubSeq(path, 1, Len(S_ServicePrefix)) = S_ServicePrefix

\* C14 (as claimed): for a POST whose path starts with /service/, the service
\* name is the rest of the path cut at the first "?" or "#"; an empty name
\* (the path being exactly /service/ included) is answered with 400 "Service
\* name is required", and any other name with what the registry's invocation
\* of exactly that name gives.
C14_ServiceNameExtraction ==
    [][ \A c \in Connections :
          ( /\ HandlesNow(c)
            /\ ParsedRequests[conns'[c].raw].ok
            /\ ParsedRequests[conns'[c].raw].method = "POST"
            /\ IsServicePath(ParsedRequests[conns'[c].raw].path) ) =>
              LET request == ParsedRequests[conns'[c].raw]
                  name == ServiceNameOf(request.path)
                  result == conns'[c].result IN
              IF name = << >>
              THEN /\ result.kind = "response"
                   /\ result.response.status = BadRequest
                   /\ IsJsonError(result.response.body)
                   /\ result.response.body.fields.error =
                         "Service name is required"
              ELSE \E o \in Outcomes :
                      LET invoked == HandleServiceRequest(m_services, request,
                                                          name, o) IN
                      IF invoked = Escaped THEN result = Escaped
                      ELSE /\ result.kind = "response"
                           /\ result.response.status = invoked.response.status
                           /\ result.response.body = invoked.response.body
      ]_vars

\* A well-formed request: parsed, with a known method and a path that is
\* not empty.
WellFormed(request) ==
    request.ok /\ request.method # "UNKNOWN" /\ request.path # << >>

\* The fixed routes: GET /ping, GET /services, POST /service/..., GET / and,
\* with a static file handler, every GET.
FixedRoute(request) ==
    \/ /\ request.method = "GET"
       /\ \/ request.path \in {S_Ping, S_Services, S_Root}
          \/ m_static_file_handler
    \/ request.method = "POST" /\ IsServicePath(request.path)

\* C15 (as claimed): a well-formed request that is not OPTIONS and matches
\* none of the fixed routes is answered with status 404 and a JSON body with
\* an "error" field, whatever its method and whatever is registered.
C15_UnknownRouteIs404 ==
    \A c \in Connections :
        ( /\ Handled(c) /\ WellFormed(Parsed(c))
          /\ Parsed(c).method # "OPTIONS"
          /\ ~FixedRoute(Parsed(c)) ) =>
            /\ conns[c].result.kind = "response"
            /\ conns[c].result.response.status = NotFound
            /\ IsJsonError(conns[c].result.response.body)

\* C16 (as claimed): GET /service/<name> for a registered service is answered
\* with status 405 or 400.
C16_GetOnServiceEndpoint ==
    [][ \A c \in Connections :
          ( /\ HandlesNow(c)
            /\ conns'[c].raw = RawRequest(S_GET, S_ServiceA)
            /\ NameA \in DOMAIN m_services ) =>
              /\ conns'[c].result.kind = "response"
              /\ conns'[c].result.response.status \in
                    {MethodNotAllowed, BadRequest}
      ]_vars

\* C17: when ParseRequest fails on the request, HandleRequest returns the
\* serialized 400 "Bad Request" response (nothing is thrown, nothing is
\* routed), the connection's thread goes on to send it, and its next step
\* sends it and closes the connection.
C17_ParseFailureIs400 ==
    [][ \A c \in Connections :
          /\ (HandlesNow(c) /\ ~ParsedRequests[conns'[c].raw].ok) =>
                /\ conns'[c].pc = "send"
                /\ conns'[c].result.kind = "response"
                /\ conns'[c].result.response.status = BadRequest
                /\ conns'[c].result.response.reason = "Bad Request"
                /\ conns'[c].result.response.body = TextBody("Bad Request")
                /\ alive'
          /\ (conns[c].pc = "send" /\ conns'[c] # conns[c]) =>
                conns'[c].pc = "closed"
      ]_vars

\* C17 witness: a request with an unknown method was answered 400 and the
\* answer is about to be sent.
C17_Witness ==
    \E c \in Connections :
        /\ Handled(c)
        /\ conns[c].raw = RawRequest(S_Bogus, S_Root)
        /\ ~Parsed(c).ok
        /\ conns[c].pc = "send"
        /\ conns[c].result.response.status = BadRequest

\* C18 (as claimed): every request that HandleRequest routes is well-formed
\* (its method is known and its path is not empty); a request line with an
\* unknown method or an empty path is answered as a parse failure.
C18_OnlyWellFormedRouted ==
    \A c \in Connections :
        Handled(c) =>
            IF Parsed(c).ok
            THEN Parsed(c).method # "UNKNOWN" /\ Parsed(c).path # << >>
            ELSE conns[c].result.response.status = BadRequest

\* The tokens of a line, as successive stream extractions give them.
RECURSIVE TokensFrom(_, _)
TokensFrom(str, from) ==
    LET t == ReadToken(str, from) IN
    IF t.tok = << >> THEN << >>
    ELSE <<t.tok>> \o TokensFrom(str, t.next)

MethodNames == {S_GET, S_POST, S_PUT, S_DELETE, S_OPTIONS, S_HEAD, S_PATCH}

\* The first line is exactly METHOD URL VERSION with a known method.
IsRequestLine(raw) ==
    /\ raw # << >>
    /\ LET tokens == TokensFrom(StripCR(GetLines(raw)[1]), 1) IN
       /\ Len(tokens) = 3
       /\ ToUpper(tokens[1]) \in MethodNames

RequestLines == {raw \in RawRequests : IsRequestLine(raw)}

\* C19 (as claimed): ParseRequest succeeds exactly when the input is not
\* empty and its first line is three tokens METHOD URL VERSION with METHOD,
\* in any case, one of GET, POST, PUT, DELETE, OPTIONS, HEAD, PATCH.
C19_ParseSucceedsIffThreeTokens ==
    \A c \in Connections :
        conns[c].result # NoResult =>
            (Parsed(c).ok <=> conns[c].raw \in RequestLines)

\* C20 (as claimed): every serialized response has a Content-Length header
\* whose value is the length of the body that follows.
C20_ContentLengthIsBodyLength ==
    \A c \in Connections :
        conns[c].pc = "send" =>
            LET response == conns[c].result.response IN
            /\ "Content-Length" \in DOMAIN response.headers
            /\ response.headers["Content-Length"] = SizeOf(response.body)

\* C20 (amended): every serialized response has one Content-Length header;
\* its value is the one the response already carried when it had one (a
\* handler's own header is kept as it is), and the length of the body
\* otherwise.
C20_ContentLengthKeptOrInjected ==
    \A c \in Connections :
        conns[c].pc = "send" =>
            LET response == conns[c].result.response
                body == response.body
                preset == IF body.kind = "handler"
                          THEN HandlerApply(body.handler, body.request).headers
                          ELSE NoHeaders IN
            /\ "Content-Length" \in DOMAIN response.headers
            /\ response.headers["Content-Length"] =
                  IF "Content-Length" \in DOMAIN preset
                  THEN preset["Content-Length"]
                  ELSE SizeOf(body)

\* C20 witness: the response of a handler that set Content-Length itself, to
\* another length than its body's, is about to be sent with that header.
C20_Witness ==
    \E c \in Connections :
        /\ conns[c].pc = "send"
        /\ conns[c].result.response.body.kind = "handler"
        /\ conns[c].result.response.body.handler = "h2"
        /\ conns[c].result.response.headers["Content-Length"] =
              SizeOf(EmptyBody)
        /\ SizeOf(EmptyBody) # SizeOf(conns[c].result.response.body)


(***************************************************************************)
(* Properties of one connection (SpecClient)                               *)
(***************************************************************************)
\* The handler has been called with what ReceiveData returned, and the
\* request parsed.
ParsedByHandler == cycle.handler_calls > 0 /\ cycle.request.ok

\* The bytes of str that follow its first header terminator.
AfterTerminator(str) ==
    SubSeq(str, FindStr(str, S_HeaderEnd, 1) + 4, Len(str))

\* C21: for every raw request that parses, the parsed body is exactly the
\* bytes that follow the first blank line of the input, whether or not they
\* begin or end with a line feed.
C21_BodyVerbatim ==
    (ParsedByHandler /\ filler_size = 0 /\ FindStr(data, S_HeaderEnd, 1) # 0)
        => cycle.request.body = AfterTerminator(data)

\* Percent-decoding as the specification describes it: %XY with two hex
\* digits is that byte, '+' is a space, every other character is copied and
\* consumes nothing after it.
RECURSIVE PercentDecodeFrom(_, _)
PercentDecodeFrom(str, i) ==
    IF i > Len(str) THEN << >>
    ELSE IF /\ str[i] = "%"
            /\ i + 2 <= Len(str)
            /\ IsHexDigit(str[i + 1])
            /\ IsHexDigit(str[i + 2])
    THEN <<Chr(16 * HexValue(str[i + 1]) + HexValue(str[i + 2]))>>
            \o PercentDecodeFrom(str, i + 3)
    ELSE IF str[i] = "+" THEN <<" ">> \o PercentDecodeFrom(str, i + 1)
    ELSE <<str[i]>> \o PercentDecodeFrom(str, i + 1)

\* The URL of a request line METHOD URL VERSION: its second token.
UrlOf(str) == ReadToken(str, ReadToken(str, 1).next).tok

\* C22: the URL is split at its first '?'; the path is the percent-decoding
\* of the part before it, in which a malformed or truncated escape is copied
\* unchanged, and the query string is the part after it, byte for byte.
C22_UrlSplitAndDecoded ==
    ParsedByHandler =>
        LET url == UrlOf(data)
            question_pos == FindChar(url, "?", 1)
            before == IF question_pos = 0 THEN url
                      ELSE SubSeq(url, 1, question_pos - 1)
            after == IF question_pos = 0 THEN << >>
                     ELSE SubSeq(url, question_pos + 1, Len(url)) IN
        /\ cycle.request.path = PercentDecodeFrom(before, 1)
        /\ cycle.request.query_string = after

\* C23: when more than 1 MiB has been read before a complete message was
\* framed, the handler is not called and no response is written.
C23_SizeGuardAborts ==
    cycle.why = "guard" => cycle.handler_calls = 0 /\ ~cycle.sent

\* The declared body length as the specification defines it: the value that
\* follows the first "Content-Length: " inside the header block (the bytes
\* before the first header terminator), up to the end of its line, when it
\* is a decimal number; 0 when there is none or it is not one.
DeclaredLength(str) ==
    LET end_pos == FindStr(str, S_HeaderEnd, 1)
        block == SubSeq(str, 1, end_pos - 1)
        label_pos == FindStr(block, S_ContentLengthLabel, 1)
        value_pos == label_pos + Len(S_ContentLengthLabel)
        line_end == FindStr(block, S_CRLF, value_pos)
        value == SubSeq(block, value_pos,
                        IF line_end = 0 THEN Len(block) ELSE line_end - 1) IN
    IF end_pos = 0 \/ label_pos = 0 THEN 0
    ELSE IF value = << >> \/ \E i \in 1..Len(value) : ~IsDigit(value[i]) THEN 0
    ELSE DecimalValue(value, 0)

\* str followed by fill filler bytes holds the header terminator and, after
\* it, at least the declared number of bytes.
Framed(str, fill) ==
    LET end_pos == FindStr(str, S_HeaderEnd, 1) IN
    /\ end_pos # 0
    /\ Len(str) + fill - (end_pos + 3) >= DeclaredLength(str)

\* C24: when the peer closes, or a receive error or timeout occurs, after at
\* least one byte but before the header terminator or the declared number
\* of body bytes has arrived, the handler is not called and no response is
\* written.
C24_PrematureCloseAborts ==
    (/\ cycle.why \in {"closed", "error"}
     /\ Len(data) + filler_size > 0
     /\ ~Framed(data, filler_size))
        => cycle.handler_calls = 0 /\ ~cycle.sent

\* C25: a connection carries at most one request/response cycle: the
\* handler is called at most once, nothing is read once ReceiveData has
\* returned, and the socket is closed exactly once on every path through
\* HandleClient.
C25_OneCycleClosedOnce ==
    /\ cycle.handler_calls <= 1
    /\ cycle.closes <= 1
    /\ (cycle.handler_calls > 0 \/ cycle.sent) => hcPc # "recv"
    /\ hcPc \in {"done", "terminate"} => cycle.closes = 1

\* C29: on a connection whose peer keeps sending, ReceiveData reports the
\* message complete exactly at the first read after which the buffer holds
\* the header terminator and at least the declared number of bytes after
\* it, and reads no more.
C29_CompleteAtFirstSufficientRead ==
    [][(hcPc = "recv" /\ cycle'.why \notin {"closed", "error"})
          => /\ (cycle'.why \in {"complete", "no_body"})
                    <=> Framed(data', filler_size')
             /\ Framed(data', filler_size') => hcPc' # "recv"]_vars

\* C30: the declared body length used for framing is the value of the
\* literal "Content-Length: " found inside the header block, and 0 when the
\* header block has no such literal or its value is not a well-formed
\* decimal number.
C30_DeclaredLengthFromHeaderBlock ==
    headers_complete => content_length = DeclaredLength(data)

(***************************************************************************)
(* Properties of starting and stopping (SpecServer)                        *)
(***************************************************************************)
\* C26: when socket creation, bind or listen fails, the server stays in the
\* not-running state: IsRunning() is not true at any point after Start() has
\* returned, up to the step at which the failure happens.
C26_BindFailureNeverRunning ==
    [][(/\ m_server_thread = "start"
        /\ m_server_thread' = "exit"
        /\ ~m_is_running)
          => ~m_running]_vars

\* C27: a call of Stop() on a started server returns: while it waits in
\* join the acceptor thread has ended or has been told to end (its loop
\* condition is false), for every interleaving of Stop() with the acceptor
\* thread's bind/listen step.
C27_StopEndsAcceptor ==
    (apiPc = "stop_join" /\ m_server_thread \notin {"exit", "not_joinable"})
        => ~m_is_running

\* C28: once the server is serving, the accept loop keeps running and the
\* running flag stays true until Stop() is called, whatever happens on a
\* connection, in accept or in the loop body.
C28_ServingUntilStop ==
    [][(/\ alive
        /\ m_running
        /\ m_is_running
        /\ m_server_thread \in {"run", "loop", "accept"})
          => \/ apiCall'.op = "Stop" /\ apiPc' = "stop_socket"
             \/ /\ alive'
                /\ m_running'
                /\ m_server_thread' \in {"run", "loop", "accept"}]_vars

(***************************************************************************)
(* Properties of one connection, continued (SpecClient, SpecClientFair)    *)
(***************************************************************************)
\* C31: on a connection whose first read returns zero bytes or fails, the
\* handler is not called and no byte of a response is written; HandleClient
\* closes the socket and returns.
C31_EmptyFirstReadDropped ==
    (cycle.reads = 1 /\ cycle.why \in {"closed", "error"}) =>
        /\ cycle.handler_calls = 0
        /\ cycle.total_sent = 0 /\ ~cycle.sent
        /\ hcPc \in {"returned", "done"}
        /\ cycle.closes = IF hcPc = "done" THEN 1 ELSE 0

\* C31 witness: the first read failed and the connection has been closed.
C31_Witness ==
    /\ cycle.reads = 1
    /\ cycle.why = "error"
    /\ hcPc = "done"
    /\ cycle.closes = 1

HasColon(line) == FindChar(line, ":", 1) # 0
HeaderName(line) ==
    ToLower(Trim(SubSeq(line, 1, FindChar(line, ":", 1) - 1)))
HeaderValue(line) ==
    Trim(SubSeq(line, FindChar(line, ":", 1) + 1, Len(line)))

\* C32: for every sequence of header lines between the request line and the
\* first empty line, the header map holds, for each line with a colon, the
\* trimmed lower-cased text before the first colon mapped to the trimmed
\* text after it, the last occurrence of a name giving the value; a line
\* without a colon adds nothing and the parse succeeds.
C32_HeaderMap ==
    \A hs \in HeaderLineSeqs :
        (peer.message = HeaderMessage(hs) /\ cycle.handler_calls > 0) =>
            LET with_colon == {i \in 1..Len(hs) : HasColon(hs[i])} IN
            /\ cycle.request.ok
            /\ DOMAIN cycle.request.headers =
                  {HeaderName(hs[i]) : i \in with_colon}
            /\ \A i \in with_colon :
                  (\A j \in with_colon :
                      j > i => HeaderName(hs[j]) # HeaderName(hs[i]))
                  => cycle.request.headers[HeaderName(hs[i])]
                        = HeaderValue(hs[i])

\* C32 witness: a request with two header lines of the same name and
\* different values was parsed, and the map holds the second value.
C32_Witness ==
    \E hs \in HeaderLineSeqs :
        /\ Len(hs) = 2
        /\ HasColon(hs[1]) /\ HasColon(hs[2])
        /\ HeaderName(hs[1]) = HeaderName(hs[2])
        /\ HeaderValue(hs[1]) # HeaderValue(hs[2])
        /\ peer.message = HeaderMessage(hs)
        /\ cycle.handler_calls > 0
        /\ cycle.request.headers[HeaderName(hs[2])] = HeaderValue(hs[2])

\* C34: every connection's thread ends with the socket closed, provided
\* each recv and send call returns and the handler returns (nothing that is
\* no std::exception leaves it).
C34_ConnectionEndsClosed ==
    [](hcPc # "terminate") => <>(hcPc = "done" /\ cycle.closes = 1)

\* C34 witness: the thread has ended with the socket closed after the size
\* guard ended the receive loop and the whole response was sent.
C34_Witness ==
    /\ hcPc = "done"
    /\ cycle.closes = 1
    /\ cycle.why = "guard"
    /\ cycle.sent

(***************************************************************************)
(* Properties of the accept loop, of the threads and of the router         *)
(***************************************************************************)
\* C33: when accept fails the loop does not end there but goes back to its
\* condition; from there accept is called again when the socket server's
\* running flag is true, and the loop exits, without another accept, when
\* a stop request has cleared it.
C33_AcceptFailureBacksOff ==
    [][/\ (/\ m_server_thread = "accept"
           /\ m_server_thread' # "accept"
           /\ conns' = conns)
              => m_server_thread' = "loop"
       /\ (m_server_thread = "loop" /\ m_server_thread' # "loop")
              => m_server_thread' = IF m_is_running THEN "accept" ELSE "exit"
      ]_vars

\* C33 witness: accept has failed (no connection was ever accepted) and the
\* thread is back at the loop condition, the running flag cleared by Stop.
C33_Witness ==
    /\ m_server_thread = "loop"
    /\ ~m_is_running
    /\ apiCall.op = "Stop"
    /\ \A c \in Connections : conns[c].pc = "none"

\* C35 (as claimed): Start() never assigns a new thread to m_server_thread
\* while it is joinable, whatever Start() and Stop() calls came before and
\* however the earlier start ended.
C35_NoAssignToJoinableThread ==
    [][(/\ nApiCalls' = nApiCalls + 1
        /\ apiCall'.op = "Start"
        /\ ~m_running)
          => m_server_thread = "not_joinable"]_vars

\* C36 (as claimed): once Stop() has returned, no connection thread calls
\* Server::HandleRequest.
C36_NoHandlingAfterStop ==
    [][\A c \in Connections :
          (conns[c].pc = "spawned" /\ conns'[c].pc \in {"send", "terminate"})
              => ~(apiPc = "idle" /\ apiCall.op = "Stop")]_vars

\* C37 (as claimed): when the execution of a service's handler begins, the
\* service is registered and enabled: no DisableService or UnregisterService
\* of it has returned true since.
C37_NoStartAfterDisable ==
    [][\A t \in Invokers :
          (pc[t] = "call" /\ pc'[t] = "running") =>
              /\ inv[t].name \in DOMAIN m_services
              /\ m_services[inv[t].name].enabled]_vars

\* C38 (as claimed): in the router build, a GET request whose path without
\* its leading slash is the name of a registered service is answered by
\* HandleServiceRequest for that service, before any other GET route is
\* looked at; a GET request with any other path is answered without a
\* service handler being called.
C38_GetDispatchesByName ==
    [][\A c \in Connections :
          (/\ HandlesNow(c)
           /\ variant = "router"
           /\ ParsedRequests[conns'[c].raw].ok
           /\ ParsedRequests[conns'[c].raw].method = "GET") =>
              LET request == ParsedRequests[conns'[c].raw]
                  path == request.path
                  named == /\ Len(path) > 1
                           /\ path[1] = "/"
                           /\ Tail(path) \in DOMAIN m_services IN
              IF named
              THEN \E o \in Outcomes :
                      LET r == HandleServiceRequest(m_services, request,
                                                    Tail(path), o) IN
                      conns'[c].result =
                         IF r = Escaped THEN Escaped
                         ELSE Returned(SerializeResponse(
                                          AddCorsHeaders(r.response)))
              ELSE /\ conns'[c].result.kind = "response"
                   /\ conns'[c].result.response.body.kind # "handler"
      ]_vars

=============================================================================
